---- MODULE Spec2Model ----
(***************************************************************************)
(* Resumable Dropbox inventory: the hybrid enumerator                      *)
(* (create_dropbox_inventory/create_inventory.py, class HybridInventory)   *)
(* and the legacy enumerator (dropbox_inv.py, class DropboxInventory),     *)
(* both running against one paginated listing API and one file system.     *)
(*                                                                         *)
(* A process is one invocation of run().  Its position is pc; its object   *)
(* fields are the record self.  Files are written as the code writes them: *)
(* open(..., 'w') truncates the file, json.dump + close fills it.  The     *)
(* process can be killed between any two steps and SIGINT can be delivered *)
(* between any two steps.                                                  *)
(*                                                                         *)
(* Left out of the state: timestamps ('timestamp', 'generated'), the       *)
(* rounded 'total_size_gb' / 'size_mb' figures, the CSV projection, the    *)
(* log file and the legacy 'folders_seen' set (written, never read back    *)
(* for a decision).                                                        *)
(***************************************************************************)
EXTENDS Integers, Sequences, FiniteSets, TLC

\* ------------------------------------------------------------------ bounds
MaxPages   == 2   \* pages of one traversal (root page included)
MaxRuns    == 2   \* invocations of run() in one behaviour
MaxFaults  == 2   \* disturbances in one behaviour: SIGINTs, kills, failed remote attempts
MaxFailures == 5  \* failed remote attempts in one behaviour of the retry scenario

\* ------------------------------------------------------- program constants
SAVE_INTERVAL_ENTRIES == 1000

\* ------------------------------------------------------------- file names
OLD_CHECKPOINT     == "inventory_output/checkpoint.json"
OLD_INVENTORY_JSON == "inventory_output/inventory.json"
CHECKPOINT_FILE    == "inventory_output_hybrid/checkpoint.json"
INVENTORY_JSON     == "inventory_output_hybrid/inventory.json"
Files == {OLD_CHECKPOINT, OLD_INVENTORY_JSON, CHECKPOINT_FILE, INVENTORY_JSON}

\* the legacy script's own CHECKPOINT_FILE / INVENTORY_JSON
L_CHECKPOINT_FILE == OLD_CHECKPOINT
L_INVENTORY_JSON  == OLD_INVENTORY_JSON

Absent    == [kind |-> "absent"]
Truncated == [kind |-> "truncated"]   \* opened with 'w', document not (fully) written

\* --------------------------------------------------------- the remote API
\* Metadata objects as the SDK returns them.
mA   == [kind |-> "FolderMetadata",  path_display |-> "/A",       suffix |-> "",     size |-> 0]
mAf  == [kind |-> "FileMetadata",    path_display |-> "/A/f.txt", suffix |-> ".txt", size |-> 1024]
mB   == [kind |-> "FileMetadata",    path_display |-> "/B.txt",   suffix |-> ".txt", size |-> 2048]
mB2  == [kind |-> "FileMetadata",    path_display |-> "/B.txt",   suffix |-> ".txt", size |-> 512]
mC   == [kind |-> "FileMetadata",    path_display |-> "/C.TXT",   suffix |-> ".TXT", size |-> 1]
mD   == [kind |-> "FileMetadata",    path_display |-> "/D",       suffix |-> "",     size |-> 4]
mDel == [kind |-> "DeletedMetadata", path_display |-> "/E",       suffix |-> "",     size |-> 0]
mFB  == [kind |-> "FolderMetadata",  path_display |-> "/B",       suffix |-> "",     size |-> 0]
mFC  == [kind |-> "FolderMetadata",  path_display |-> "/C",       suffix |-> "",     size |-> 0]
mAS  == [kind |-> "FolderMetadata",  path_display |-> "/A/S",     suffix |-> "",     size |-> 0]

PageSet == { <<>>, <<mA, mAf>>, <<mB, mDel>>, <<mB2, mC, mD>> }

RECURSIVE SeqsUpTo(_, _)
SeqsUpTo(S, n) ==
    IF n = 0 THEN { <<>> }
    ELSE LET shorter == SeqsUpTo(S, n - 1)
         IN  shorter \cup { Append(s, x) : s \in { t \in shorter : Len(t) = n - 1 }, x \in S }

Traversals == { t \in SeqsUpTo(PageSet, MaxPages) : Len(t) >= 1 }

NoCursor == 0     \* Python None; a cursor is the number of pages already served

VARIABLES
    pages,      \* the traversal the API serves: pages[1] is the root page
    disk,       \* file name -> Absent | Truncated | document
    prog,       \* "none" | "hybrid" | "legacy": the running process
    pc,         \* position of the running process
    self,       \* the object's fields
    result,     \* the listing result in hand (local 'result')
    idx,        \* position of the for loop over result.entries
    attempt,    \* loop variable 'attempt' of _api_call
    new_count,  \* local 'new_count' of _continue_recursive
    loaded,     \* local 'loaded' of _load_old_progress / return of _load_checkpoint
    resume,     \* argument of DropboxInventory.run
    ret,        \* where the save in progress returns to
    sigAt,      \* position at which SIGINT was delivered to this process ("" if none)
    hist        \* bookkeeping of the behaviour: runs, sigints, kills, errors, ...

vars == <<pages, disk, prog, pc, self, result, idx, attempt, new_count, loaded, resume, ret, sigAt, hist>>

\* files_list_folder("", recursive=True, ...)
files_list_folder ==
    [entries |-> pages[1], cursor |-> 1, has_more |-> (1 < Len(pages))]

\* files_list_folder_continue(c); at the latest cursor there is nothing new
files_list_folder_continue(c) ==
    IF c < Len(pages)
    THEN [entries |-> pages[c + 1], cursor |-> c + 1, has_more |-> (c + 1 < Len(pages))]
    ELSE [entries |-> <<>>, cursor |-> c, has_more |-> FALSE]

NoResult == [entries |-> <<>>, cursor |-> NoCursor, has_more |-> FALSE]

\* ------------------------------------------------------------ pure helpers
None    == "None"              \* Python None in a string-valued field
NoEntry == [type |-> "None"]   \* Python None returned by _process_entry

\* str.lower() on the suffixes that occur
Lower(s) == CASE s = ".TXT" -> ".txt" [] OTHER -> s

\* Path(name).suffix.lower() or None
Extension(m) == IF Lower(m.suffix) = "" THEN None ELSE Lower(m.suffix)

\* path_display.split('/') on the paths that occur
Split(p) ==
    CASE p = "/A"       -> <<"", "A">>
      [] p = "/B"       -> <<"", "B">>
      [] p = "/C"       -> <<"", "C">>
      [] p = "/D"       -> <<"", "D">>
      [] p = "/E"       -> <<"", "E">>
      [] p = "/B.txt"   -> <<"", "B.txt">>
      [] p = "/C.TXT"   -> <<"", "C.TXT">>
      [] p = "/A/f.txt" -> <<"", "A", "f.txt">>
      [] p = "/A/S"     -> <<"", "A", "S">>
      [] OTHER          -> <<"", p>>   \* any other path that occurs lies directly under the root

\* _process_entry: metadata object -> entry dict, or None
process_entry(m) ==
    CASE m.kind = "FileMetadata" ->
            [type |-> "file", path |-> m.path_display,
             extension |-> Extension(m), size_bytes |-> m.size,
             folder_depth |-> Len(Split(m.path_display)) - 1]
      [] m.kind = "FolderMetadata" ->
            [type |-> "folder", path |-> m.path_display,
             extension |-> None, size_bytes |-> 0,
             folder_depth |-> Len(Split(m.path_display)) - 1]
      [] OTHER -> NoEntry

\* [e for e in self.entries if e['type'] == 'file']
IsFile(e) == e.type = "file"
SelectFiles(es) == SelectSeq(es, IsFile)

\* sum(e['size_bytes'] for e in files_only), added up by halves
RECURSIVE SumSizes(_)
SumSizes(es) ==
    IF Len(es) = 0 THEN 0
    ELSE IF Len(es) = 1 THEN es[1].size_bytes
    ELSE LET half == Len(es) \div 2
         IN  SumSizes(SubSeq(es, 1, half)) + SumSizes(SubSeq(es, half + 1, Len(es)))

\* e.get('extension', '(none)') or '(none)'
ExtKey(e) == IF e.extension = None THEN "(none)" ELSE e.extension

\* ext_counts[ext] = ext_counts.get(ext, 0) + 1 for every file, counted by halves
RECURSIVE ExtCounts(_)
ExtCounts(fs) ==
    IF Len(fs) = 0 THEN <<>>
    ELSE IF Len(fs) = 1 THEN (ExtKey(fs[1]) :> 1)
    ELSE LET half == Len(fs) \div 2
             a    == ExtCounts(SubSeq(fs, 1, half))
             b    == ExtCounts(SubSeq(fs, half + 1, Len(fs)))
         IN  [k \in DOMAIN a \cup DOMAIN b |->
                (IF k \in DOMAIN a THEN a[k] ELSE 0) + (IF k \in DOMAIN b THEN b[k] ELSE 0)]

\* a summary that counts every entry as a folder
SummaryOf_every_entry_a_folder(es, has_more, api_calls) ==
    LET files_only == SelectFiles(es)
    IN  [status           |-> IF ~has_more THEN "complete" ELSE "in_progress",
         total_entries    |-> Len(es),
         total_files      |-> Len(files_only),
         total_folders    |-> Len(es),
         total_size_bytes |-> SumSizes(files_only),
         api_calls        |-> api_calls,
         file_types       |-> ExtCounts(files_only)]

\* the summary block of the inventory document
SummaryOf(es, has_more, api_calls) ==
    LET files_only == SelectFiles(es)
    IN  [status           |-> IF ~has_more THEN "complete" ELSE "in_progress",
         total_entries    |-> Len(es),
         total_files      |-> Len(files_only),
         total_folders    |-> Len(es) - Len(files_only),
         total_size_bytes |-> SumSizes(files_only),
         api_calls        |-> api_calls,
         file_types       |-> ExtCounts(files_only)]

InventoryDoc(s) ==
    [kind |-> "inventory", summary |-> SummaryOf(s.entries, s.has_more, s.api_calls),
     entries |-> s.entries]

CheckpointDoc(s) ==
    [kind |-> "checkpoint", cursor |-> s.cursor, has_more |-> s.has_more,
     api_calls |-> s.api_calls, entries_count |-> Len(s.entries)]

\* _add_entry on the pair (entries, entries_by_path); e may be None
AddEntryOk(s, e) == e # NoEntry /\ e.path \notin DOMAIN s.entries_by_path

\* an insert that lets the record seen last replace the stored one
add_entry_last_wins(s, e) ==
    IF e = NoEntry THEN s
    ELSE IF e.path \in DOMAIN s.entries_by_path
    THEN [s EXCEPT !.entries = [i \in DOMAIN @ |-> IF @[i].path = e.path THEN e ELSE @[i]],
                   !.entries_by_path = [@ EXCEPT ![e.path] = e]]
    ELSE [s EXCEPT !.entries = Append(@, e),
                   !.entries_by_path = @ @@ (e.path :> e)]

\* an insert that appends without looking the path up
add_entry_no_lookup(s, e) ==
    IF e = NoEntry THEN s
    ELSE [s EXCEPT !.entries = Append(@, e),
                   !.entries_by_path = (e.path :> e) @@ @]

add_entry(s, e) ==
    IF AddEntryOk(s, e)
    THEN [s EXCEPT !.entries = Append(@, e),
                   !.entries_by_path = @ @@ (e.path :> e)]
    ELSE s

\* a load that takes over no entry of the document
add_entries_none(s, es) == s

\* for entry in data.get('entries', []): self._add_entry(entry)
RECURSIVE add_entries(_, _)
add_entries(s, es) ==
    IF es = <<>> THEN s ELSE add_entries(add_entry(s, Head(es)), Tail(es))

\* __init__ of either class
NewObject ==
    [entries |-> <<>>, entries_by_path |-> <<>>, cursor |-> NoCursor, has_more |-> TRUE,
     api_calls |-> 0, is_running |-> TRUE, entries_since_save |-> 0]

\* RateLimitError.backoff: None, or the wait the server suggested
NoBackoff == -1
Backoffs  == {NoBackoff, 0, 3}

\* what the remote operation can raise on an attempt that _api_call retries
Failures ==
    { [kind |-> "RateLimitError", backoff |-> b] : b \in Backoffs }
      \cup { [kind |-> "InternalServerError", backoff |-> NoBackoff] }

\* 2 ** attempt
Pow2(k) == CASE k = 0 -> 1 [] k = 1 -> 2 [] k = 2 -> 4 [] k = 3 -> 8 [] k = 4 -> 16 [] OTHER -> 32

\* _api_call: wait = e.backoff if e.backoff else (2 ** attempt); 2 ** attempt for a server error
Wait(f, k) ==
    IF f.kind = "RateLimitError"
    THEN IF f.backoff # NoBackoff /\ f.backoff # 0 THEN f.backoff ELSE Pow2(k)
    ELSE Pow2(k)

\* the _api_call in progress or last ended: invoked: invocations of func() so far;
\* base: api_calls on entry; kind, backoff: the exception last caught; slept: the
\* argument of the last time.sleep; outcome: how it ended ("" while it runs)
NoCall == [invoked |-> 0, base |-> 0, kind |-> "", backoff |-> NoBackoff, slept |-> 0,
           outcome |-> ""]
EnterCall(n) == [NoCall EXCEPT !.base = n]

\* what a run started from and which remote operations it has asked for: ck: the
\* checkpoint on disk when the run started that its loader reads (loaded: there was
\* one); first: the first remote operation of the run and the cursor it carried;
\* roots: root listings asked for by the run; last: the checkpoint persisted last,
\* by this run or else the one it started from
NoCk    == [cursor |-> NoCursor, has_more |-> TRUE, loaded |-> FALSE,
            api_calls |-> 0, entries_count |-> 0]
CkOf(doc) == [cursor |-> doc.cursor, has_more |-> doc.has_more, loaded |-> TRUE,
              api_calls |-> doc.api_calls, entries_count |-> doc.entries_count]
NoFirst == [op |-> "", cursor |-> NoCursor]
NoRun   == [ck |-> NoCk, first |-> NoFirst, roots |-> 0, last |-> NoCk]
StartRun(ck) == [NoRun EXCEPT !.ck = ck, !.last = ck]
Issue(run, op, cursor) ==
    [run EXCEPT !.first = IF @ = NoFirst THEN [op |-> op, cursor |-> cursor] ELSE @,
                !.roots = IF op = "files_list_folder" THEN @ + 1 ELSE @]

\* runs: invocations of run() so far; faults: disturbances so far; sigints: SIGINTs
\* so far; killed: a process was killed; raised: an exception left _api_call;
\* sigMid: a SIGINT arrived while a page was partly taken over; branch: the way the
\* current run went after loading ("continue" from a cursor, "complete", "fresh");
\* mode: the scenario ("faults": every disturbance, MaxFaults of them; "retry": only
\* failing remote attempts, MaxFailures of them); call: the current _api_call;
\* elapsed: whether SAVE_INTERVAL_SECONDS had passed at the _should_save() just
\* evaluated (FALSE again once the loop test is reached); run: see NoRun
NoHist == [runs |-> 0, faults |-> 0, sigints |-> 0, killed |-> FALSE, raised |-> FALSE,
           sigMid |-> FALSE, branch |-> "", mode |-> "faults", call |-> NoCall,
           elapsed |-> FALSE, run |-> NoRun]

\* may the environment disturb the run once more: by a signal or a kill, by a
\* failing remote attempt
MayDisturb == hist.mode = "faults" /\ hist.faults < MaxFaults
MayFail ==
    IF hist.mode = "faults" THEN hist.faults < MaxFaults ELSE hist.faults < MaxFailures

Init ==
    /\ pages \in Traversals
    /\ disk = [f \in Files |-> Absent]
    /\ prog = "none"
    /\ pc = "idle"
    /\ self = NewObject
    /\ result = NoResult
    /\ idx = 0
    /\ attempt = 0
    /\ new_count = 0
    /\ loaded = FALSE
    /\ resume = FALSE
    /\ ret = ""
    /\ sigAt = ""
    /\ hist = NoHist

Readable(f) == disk[f] \notin {Absent, Truncated}
Exists(f)   == disk[f] # Absent

Write(f, doc) == disk' = [disk EXCEPT ![f] = doc]

locals == <<result, idx, attempt, new_count, loaded, resume, ret, sigAt>>

\* one attempt more than the code allows
max_retries_more == 5 + 1

max_retries == 5

Terminal == {"done", "exited", "failed"}

\* the process's exit status: run() returned or sys.exit(0) was called, or an
\* exception left main()
ExitStatus(p) == IF p = "failed" THEN 1 ELSE 0

\* positions inside 'with open(f, 'w') as f: json.dump(...)': f is open and the
\* document is partly written
OpenWrites == {"h_save_checkpoint_dump", "h_save_inventory_dump",
               "l_save_checkpoint_dump", "l_save_inventory_dump"}

\* the file that is open at such a position
OuterFile(at) ==
    CASE at = "h_save_checkpoint_dump" -> CHECKPOINT_FILE
      [] at = "h_save_inventory_dump"  -> INVENTORY_JSON
      [] at = "l_save_checkpoint_dump" -> L_CHECKPOINT_FILE
      [] at = "l_save_inventory_dump"  -> L_INVENTORY_JSON

\* a file holding doc after the beginning of an earlier dump of the same state was
\* written onto it. The two dumps differ in datetime.now().isoformat() only, which
\* is seven characters shorter when the microsecond is 0: with stamps of one length
\* the bytes fall into place, otherwise (shifted) what follows the stamp is displaced
\* and the file does not parse
Overlay(doc, shifted) == IF shifted THEN Truncated ELSE doc

\* positions at which a page is partly taken over into the object
MidPage == {"h_root_insert", "h_root_cursor", "h_root_has_more",
            "h_cont_insert", "h_cont_cursor", "h_cont_has_more",
            "l_root_insert", "l_root_cursor", "l_root_has_more",
            "l_cont_insert", "l_cont_cursor", "l_cont_has_more"}

ResetLocals ==
    /\ result' = NoResult
    /\ idx' = 0
    /\ attempt' = 0
    /\ new_count' = 0
    /\ loaded' = FALSE
    /\ resume' = FALSE
    /\ ret' = ""
    /\ sigAt' = ""

\* ======================================================= HybridInventory
\* main(): HybridInventory(ACCESS_TOKEN).run()
H_run ==
    /\ prog = "none"
    /\ hist.runs < MaxRuns
    /\ prog' = "hybrid"
    /\ pc' = "h_load_old_checkpoint"
    /\ self' = NewObject
    /\ ResetLocals
    /\ hist' = [hist EXCEPT !.runs = @ + 1, !.branch = "", !.call = NoCall,
                            !.run = StartRun(
                                       IF Readable(CHECKPOINT_FILE) THEN CkOf(disk[CHECKPOINT_FILE])
                                       ELSE IF Readable(OLD_CHECKPOINT) THEN CkOf(disk[OLD_CHECKPOINT])
                                       ELSE NoCk)]
    /\ UNCHANGED <<pages, disk>>

\* _load_old_progress, first block: the legacy checkpoint
H_load_old_checkpoint ==
    /\ prog = "hybrid" /\ pc = "h_load_old_checkpoint"
    /\ IF Readable(OLD_CHECKPOINT)
       THEN /\ self' = [self EXCEPT !.cursor = disk[OLD_CHECKPOINT].cursor,
                                    !.has_more = disk[OLD_CHECKPOINT].has_more]
            /\ loaded' = TRUE
       ELSE UNCHANGED <<self, loaded>>      \* no file, or json.load raised and was caught
    /\ pc' = "h_load_old_inventory"
    /\ UNCHANGED <<pages, disk, prog, result, idx, attempt, new_count, resume, ret, sigAt, hist>>

\* _load_old_progress, second block: the legacy inventory
H_load_old_inventory ==
    /\ prog = "hybrid" /\ pc = "h_load_old_inventory"
    /\ IF Readable(OLD_INVENTORY_JSON)
       THEN /\ self' = add_entries(self, disk[OLD_INVENTORY_JSON].entries)
            /\ loaded' = TRUE
       ELSE UNCHANGED <<self, loaded>>
    /\ pc' = "h_load_checkpoint"
    /\ UNCHANGED <<pages, disk, prog, result, idx, attempt, new_count, resume, ret, sigAt, hist>>

\* _load_old_progress, third block: the hybrid checkpoint takes priority
H_load_checkpoint ==
    /\ prog = "hybrid" /\ pc = "h_load_checkpoint"
    /\ IF Readable(CHECKPOINT_FILE)
       THEN /\ self' = [self EXCEPT !.cursor = disk[CHECKPOINT_FILE].cursor,
                                    !.has_more = disk[CHECKPOINT_FILE].has_more,
                                    !.api_calls = disk[CHECKPOINT_FILE].api_calls]
            /\ pc' = "h_load_inventory"
       ELSE /\ UNCHANGED self
            /\ pc' = "h_dispatch"
    /\ UNCHANGED <<pages, disk, prog, result, idx, attempt, new_count, loaded, resume, ret, sigAt, hist>>

\* _load_old_progress, third block continued: the hybrid inventory
H_load_inventory ==
    /\ prog = "hybrid" /\ pc = "h_load_inventory"
    /\ CASE disk[INVENTORY_JSON] = Absent ->
              /\ loaded' = TRUE
              /\ UNCHANGED self
         [] disk[INVENTORY_JSON] = Truncated ->      \* json.load raises, caught
              UNCHANGED <<self, loaded>>
         [] OTHER ->
              /\ self' = add_entries([self EXCEPT !.entries = <<>>, !.entries_by_path = <<>>],
                                     disk[INVENTORY_JSON].entries)
              /\ loaded' = TRUE
    /\ pc' = "h_dispatch"
    /\ UNCHANGED <<pages, disk, prog, result, idx, attempt, new_count, resume, ret, sigAt, hist>>

\* a run() that starts the fresh scan whatever was loaded
H_dispatch_always_fresh ==
    /\ prog = "hybrid" /\ pc = "h_dispatch"
    /\ pc' = "h_root_call"
    /\ hist' = [hist EXCEPT !.branch = "fresh",
                            !.call = EnterCall(self.api_calls),
                            !.run = Issue(@, "files_list_folder", NoCursor)]
    /\ attempt' = 0
    /\ UNCHANGED <<pages, disk, prog, self, result, idx, new_count, loaded, resume, ret, sigAt>>

\* run(): the three-way branch after loading
H_dispatch ==
    /\ prog = "hybrid" /\ pc = "h_dispatch"
    /\ pc' = IF self.cursor # NoCursor /\ self.has_more THEN "h_loop"
             ELSE IF ~self.has_more /\ self.entries # <<>> THEN "h_final"
             ELSE "h_root_call"
    /\ hist' = [hist EXCEPT !.branch =
                    IF self.cursor # NoCursor /\ self.has_more THEN "continue"
                    ELSE IF ~self.has_more /\ self.entries # <<>> THEN "complete"
                    ELSE "fresh",
                                 !.call = EnterCall(self.api_calls),
                                 !.run = IF (self.cursor # NoCursor /\ self.has_more)
                                            \/ (~self.has_more /\ self.entries # <<>>)
                                         THEN @ ELSE Issue(@, "files_list_folder", NoCursor)]
    /\ attempt' = 0
    /\ UNCHANGED <<pages, disk, prog, self, result, idx, new_count, loaded, resume, ret, sigAt>>

H_CallSites == {"h_root_call", "h_cont_call"}

\* an exception leaving _api_call: _start_fresh lets it propagate out of run(),
\* _continue_recursive catches it and breaks out of the loop
H_OnRaise(site) == IF site = "h_root_call" THEN "failed" ELSE "h_final"

\* _api_call: an attempt that returns
H_api_call_return ==
    /\ prog = "hybrid" /\ pc \in H_CallSites
    /\ self' = [self EXCEPT !.api_calls = @ + 1]
    /\ result' = IF pc = "h_root_call" THEN files_list_folder
                 ELSE files_list_folder_continue(self.cursor)
    /\ idx' = 1
    /\ new_count' = 0
    /\ pc' = IF pc = "h_root_call" THEN "h_root_insert" ELSE "h_cont_insert"
    /\ hist' = [hist EXCEPT !.call = [@ EXCEPT !.invoked = @ + 1, !.kind = "",
                                               !.backoff = NoBackoff, !.slept = 0,
                                               !.outcome = "returned"]]
    /\ UNCHANGED <<pages, disk, prog, attempt, loaded, resume, ret, sigAt>>

\* an attempt that fails and is not counted
H_api_call_retry_uncounted ==
    /\ prog = "hybrid" /\ pc \in H_CallSites
    /\ MayFail
    /\ \E f \in Failures :
          IF attempt + 1 < max_retries
          THEN /\ attempt' = attempt + 1
               /\ UNCHANGED pc
               /\ hist' = [hist EXCEPT !.faults = @ + 1,
                             !.call = [@ EXCEPT !.invoked = @ + 1, !.kind = f.kind,
                                                !.backoff = f.backoff,
                                                !.slept = Wait(f, attempt)]]
          ELSE /\ attempt' = 0
               /\ pc' = H_OnRaise(pc)
               /\ hist' = [hist EXCEPT !.faults = @ + 1, !.raised = TRUE,
                             !.call = [@ EXCEPT !.invoked = @ + 1, !.kind = f.kind,
                                                !.backoff = f.backoff,
                                                !.slept = Wait(f, attempt),
                                                !.outcome = "RuntimeError"]]
    /\ UNCHANGED <<pages, disk, prog, self, result, idx, new_count, loaded, resume, ret, sigAt>>

\* _api_call: an attempt that raises RateLimitError or InternalServerError
H_api_call_retry ==
    /\ prog = "hybrid" /\ pc \in H_CallSites
    /\ MayFail
    /\ self' = [self EXCEPT !.api_calls = @ + 1]
    /\ \E f \in Failures :
          IF attempt + 1 < max_retries
          THEN /\ attempt' = attempt + 1
               /\ UNCHANGED pc
               /\ hist' = [hist EXCEPT !.faults = @ + 1,
                             !.call = [@ EXCEPT !.invoked = @ + 1, !.kind = f.kind,
                                                !.backoff = f.backoff,
                                                !.slept = Wait(f, attempt)]]
          ELSE /\ attempt' = 0                 \* RuntimeError("Max retries exceeded")
               /\ pc' = H_OnRaise(pc)
               /\ hist' = [hist EXCEPT !.faults = @ + 1, !.raised = TRUE,
                             !.call = [@ EXCEPT !.invoked = @ + 1, !.kind = f.kind,
                                                !.backoff = f.backoff,
                                                !.slept = Wait(f, attempt),
                                                !.outcome = "RuntimeError"]]
    /\ UNCHANGED <<pages, disk, prog, result, idx, new_count, loaded, resume, ret, sigAt>>

\* an ApiError handled like a server error: sleep 2 ** attempt and try again
H_api_call_raise_retried ==
    /\ prog = "hybrid" /\ pc \in H_CallSites
    /\ MayFail
    /\ self' = [self EXCEPT !.api_calls = @ + 1]
    /\ IF attempt + 1 < max_retries
       THEN /\ attempt' = attempt + 1
            /\ UNCHANGED pc
            /\ hist' = [hist EXCEPT !.faults = @ + 1,
                          !.call = [@ EXCEPT !.invoked = @ + 1, !.kind = "ApiError",
                                             !.backoff = NoBackoff,
                                             !.slept = Pow2(attempt)]]
       ELSE /\ attempt' = 0
            /\ pc' = H_OnRaise(pc)
            /\ hist' = [hist EXCEPT !.faults = @ + 1, !.raised = TRUE,
                          !.call = [@ EXCEPT !.invoked = @ + 1, !.kind = "ApiError",
                                             !.backoff = NoBackoff,
                                             !.slept = Pow2(attempt),
                                             !.outcome = "RuntimeError"]]
    /\ UNCHANGED <<pages, disk, prog, result, idx, new_count, loaded, resume, ret, sigAt>>

\* _api_call: an attempt that raises ApiError
H_api_call_raise ==
    /\ prog = "hybrid" /\ pc \in H_CallSites
    /\ MayFail
    /\ self' = [self EXCEPT !.api_calls = @ + 1]
    /\ attempt' = 0
    /\ pc' = H_OnRaise(pc)
    /\ hist' = [hist EXCEPT !.faults = @ + 1, !.raised = TRUE,
                  !.call = [@ EXCEPT !.invoked = @ + 1, !.kind = "ApiError",
                                     !.backoff = NoBackoff, !.outcome = "ApiError"]]
    /\ UNCHANGED <<pages, disk, prog, result, idx, new_count, loaded, resume, ret, sigAt>>

\* _start_fresh: for entry in result.entries: self._add_entry(self._process_entry(entry))
H_root_insert ==
    /\ prog = "hybrid" /\ pc = "h_root_insert"
    /\ IF idx <= Len(result.entries)
       THEN /\ self' = add_entry(self, process_entry(result.entries[idx]))
            /\ idx' = idx + 1
            /\ UNCHANGED pc
       ELSE /\ pc' = "h_root_cursor"
            /\ UNCHANGED <<self, idx>>
    /\ UNCHANGED <<pages, disk, prog, result, attempt, new_count, loaded, resume, ret, sigAt, hist>>

\* _start_fresh: self.cursor = result.cursor
H_root_cursor ==
    /\ prog = "hybrid" /\ pc = "h_root_cursor"
    /\ self' = [self EXCEPT !.cursor = result.cursor]
    /\ pc' = "h_root_has_more"
    /\ UNCHANGED <<pages, disk, prog, result, idx, attempt, new_count, loaded, resume, ret, sigAt, hist>>

\* _start_fresh: self.has_more = result.has_more, then _continue_recursive()
H_root_has_more ==
    /\ prog = "hybrid" /\ pc = "h_root_has_more"
    /\ self' = [self EXCEPT !.has_more = result.has_more]
    /\ pc' = "h_loop"
    /\ UNCHANGED <<pages, disk, prog, result, idx, attempt, new_count, loaded, resume, ret, sigAt, hist>>

\* _continue_recursive: while self.has_more and self.is_running
H_loop ==
    /\ prog = "hybrid" /\ pc = "h_loop"
    /\ pc' = IF self.has_more /\ self.is_running THEN "h_cont_call" ELSE "h_final"
    /\ attempt' = 0
    /\ hist' = IF self.has_more /\ self.is_running
               THEN [hist EXCEPT !.call = EnterCall(self.api_calls),
                                 !.run = Issue(@, "files_list_folder_continue", self.cursor)]
               ELSE hist
    /\ UNCHANGED <<pages, disk, prog, self, result, idx, new_count, loaded, resume, ret, sigAt>>

\* _continue_recursive: if self._add_entry(processed): new_count += 1
H_cont_insert ==
    /\ prog = "hybrid" /\ pc = "h_cont_insert"
    /\ IF idx <= Len(result.entries)
       THEN /\ self' = add_entry(self, process_entry(result.entries[idx]))
            /\ new_count' = IF AddEntryOk(self, process_entry(result.entries[idx]))
                            THEN new_count + 1 ELSE new_count
            /\ idx' = idx + 1
            /\ UNCHANGED pc
       ELSE /\ pc' = "h_cont_cursor"
            /\ UNCHANGED <<self, idx, new_count>>
    /\ UNCHANGED <<pages, disk, prog, result, attempt, loaded, resume, ret, sigAt, hist>>

\* a loop that takes over the cursor only of a page that brought something new
H_cont_cursor_if_new ==
    /\ prog = "hybrid" /\ pc = "h_cont_cursor"
    /\ self' = IF new_count > 0 THEN [self EXCEPT !.cursor = result.cursor] ELSE self
    /\ pc' = "h_cont_has_more"
    /\ UNCHANGED <<pages, disk, prog, result, idx, attempt, new_count, loaded, resume, ret, sigAt, hist>>

\* _continue_recursive: self.cursor = result.cursor
H_cont_cursor ==
    /\ prog = "hybrid" /\ pc = "h_cont_cursor"
    /\ self' = [self EXCEPT !.cursor = result.cursor]
    /\ pc' = "h_cont_has_more"
    /\ UNCHANGED <<pages, disk, prog, result, idx, attempt, new_count, loaded, resume, ret, sigAt, hist>>

\* _continue_recursive: self.has_more = result.has_more
H_cont_has_more ==
    /\ prog = "hybrid" /\ pc = "h_cont_has_more"
    /\ self' = [self EXCEPT !.has_more = result.has_more]
    /\ pc' = "h_maybe_save"
    /\ UNCHANGED <<pages, disk, prog, result, idx, attempt, new_count, loaded, resume, ret, sigAt, hist>>

\* _continue_recursive: if time.time() - self.last_save_time >= SAVE_INTERVAL_SECONDS
H_maybe_save ==
    /\ prog = "hybrid" /\ pc = "h_maybe_save"
    /\ \E due \in BOOLEAN :
          IF due THEN pc' = "h_save_checkpoint_open" /\ ret' = "h_loop"
                 ELSE pc' = "h_loop" /\ UNCHANGED ret
    /\ UNCHANGED <<pages, disk, prog, self, result, idx, attempt, new_count, loaded, resume, sigAt, hist>>

\* a final save that declares the traversal exhausted
H_final_marks_complete ==
    /\ prog = "hybrid" /\ pc = "h_final"
    /\ IF self.is_running
       THEN /\ self' = [self EXCEPT !.has_more = FALSE]
            /\ pc' = "h_save_checkpoint_open" /\ ret' = "h_unlink"
       ELSE pc' = "done" /\ UNCHANGED <<self, ret>>
    /\ UNCHANGED <<pages, disk, prog, result, idx, attempt, new_count, loaded, resume, sigAt, hist>>

\* run(): final save, if self.is_running
H_final ==
    /\ prog = "hybrid" /\ pc = "h_final"
    /\ IF self.is_running
       THEN pc' = "h_save_checkpoint_open" /\ ret' = "h_unlink"
       ELSE pc' = "done" /\ UNCHANGED ret
    /\ UNCHANGED <<pages, disk, prog, self, result, idx, attempt, new_count, loaded, resume, sigAt, hist>>

\* a run() that removes the checkpoint whatever has_more is
H_unlink_always ==
    /\ prog = "hybrid" /\ pc = "h_unlink"
    /\ IF Exists(CHECKPOINT_FILE)
       THEN Write(CHECKPOINT_FILE, Absent)
       ELSE UNCHANGED disk
    /\ pc' = "done"
    /\ UNCHANGED <<pages, prog, self, locals, hist>>

\* a run() that returns without removing the checkpoint
H_unlink_never ==
    /\ prog = "hybrid" /\ pc = "h_unlink"
    /\ pc' = "done"
    /\ UNCHANGED <<pages, disk, prog, self, locals, hist>>

\* run(): if not self.has_more: if CHECKPOINT_FILE.exists(): CHECKPOINT_FILE.unlink()
H_unlink ==
    /\ prog = "hybrid" /\ pc = "h_unlink"
    /\ IF ~self.has_more /\ Exists(CHECKPOINT_FILE)
       THEN Write(CHECKPOINT_FILE, Absent)
       ELSE UNCHANGED disk
    /\ pc' = "done"
    /\ UNCHANGED <<pages, prog, self, locals, hist>>

\* _save_all: open(CHECKPOINT_FILE, 'w')
H_save_checkpoint_open ==
    /\ prog = "hybrid" /\ pc = "h_save_checkpoint_open"
    /\ Write(CHECKPOINT_FILE, Truncated)
    /\ pc' = "h_save_checkpoint_dump"
    /\ UNCHANGED <<pages, prog, self, locals, hist>>

\* _save_all: json.dump(checkpoint, f) and close
H_save_checkpoint_dump ==
    /\ prog = "hybrid" /\ pc = "h_save_checkpoint_dump"
    /\ Write(CHECKPOINT_FILE, CheckpointDoc(self))
    /\ pc' = "h_save_inventory_open"
    /\ hist' = [hist EXCEPT !.run.last = CkOf(CheckpointDoc(self))]
    /\ UNCHANGED <<pages, prog, self, locals>>

\* _save_all: open(INVENTORY_JSON, 'w')
H_save_inventory_open ==
    /\ prog = "hybrid" /\ pc = "h_save_inventory_open"
    /\ Write(INVENTORY_JSON, Truncated)
    /\ pc' = "h_save_inventory_dump"
    /\ UNCHANGED <<pages, prog, self, locals, hist>>

\* _save_all: json.dump({'summary': summary, 'entries': self.entries}, f) and close;
\* back in the caller, or sys.exit(0) when the caller is the signal handler
H_save_inventory_dump ==
    /\ prog = "hybrid" /\ pc = "h_save_inventory_dump"
    /\ Write(INVENTORY_JSON, InventoryDoc(self))
    /\ pc' = IF ret = "exit" THEN "h_sys_exit" ELSE ret
    /\ ret' = ""
    /\ UNCHANGED <<pages, prog, self, result, idx, attempt, new_count, loaded, resume, sigAt, hist>>

\* _signal_handler: sys.exit(0). SystemExit leaves the handler and unwinds the frame
\* the signal interrupted; inside 'with open(f, 'w') as f: json.dump(...)' the with
\* block closes its handle, and what the interrupted json.dump had written so far is
\* flushed at that handle's offset, onto the document the handler has just written
H_sys_exit ==
    /\ prog = "hybrid" /\ pc = "h_sys_exit"
    /\ IF sigAt \in OpenWrites
       THEN \E shifted \in BOOLEAN :
               Write(OuterFile(sigAt), Overlay(disk[OuterFile(sigAt)], shifted))
       ELSE UNCHANGED disk
    /\ pc' = "exited"
    /\ UNCHANGED <<pages, prog, self, locals, hist>>

\* _signal_handler: is_running = False, _save_all(), sys.exit(0)
H_signal_handler ==
    /\ prog = "hybrid" /\ pc \notin Terminal
    /\ sigAt = ""
    /\ MayDisturb
    /\ self' = [self EXCEPT !.is_running = FALSE]
    /\ sigAt' = pc
    /\ ret' = "exit"
    /\ pc' = "h_save_checkpoint_open"
    /\ hist' = [hist EXCEPT !.faults = @ + 1, !.sigints = @ + 1,
                            !.sigMid = @ \/ pc \in MidPage]
    /\ UNCHANGED <<pages, disk, prog, result, idx, attempt, new_count, loaded, resume>>

\* ====================================================== DropboxInventory
\* the legacy documents: same keys read back, 'api_calls_made' in the summary
L_SummaryOf(es, has_more, api_calls) ==
    LET files_only == SelectFiles(es)
    IN  [status           |-> IF ~has_more THEN "complete" ELSE "in_progress",
         total_entries    |-> Len(es),
         total_files      |-> Len(files_only),
         total_folders    |-> Len(es) - Len(files_only),
         total_size_bytes |-> SumSizes(files_only),
         api_calls_made   |-> api_calls,
         file_types       |-> ExtCounts(files_only)]

L_InventoryDoc(s) ==
    [kind |-> "inventory", summary |-> L_SummaryOf(s.entries, s.has_more, s.api_calls),
     entries |-> s.entries]

L_CheckpointDoc(s) ==
    [kind |-> "checkpoint", cursor |-> s.cursor, has_more |-> s.has_more,
     entries_count |-> Len(s.entries), api_calls |-> s.api_calls]

\* main(): DropboxInventory(ACCESS_TOKEN).run(resume=...)
L_run ==
    /\ prog = "none"
    /\ hist.runs < MaxRuns
    /\ prog' = "legacy"
    /\ \E r \in BOOLEAN :
          /\ resume' = r
          /\ pc' = IF r THEN "l_load_checkpoint" ELSE "l_fresh"
          /\ hist' = [hist EXCEPT !.runs = @ + 1, !.branch = "", !.call = NoCall,
                                  !.run = StartRun(IF r /\ Readable(L_CHECKPOINT_FILE)
                                                   THEN CkOf(disk[L_CHECKPOINT_FILE])
                                                   ELSE NoCk)]
    /\ self' = NewObject
    /\ result' = NoResult /\ idx' = 0 /\ attempt' = 0 /\ new_count' = 0
    /\ loaded' = FALSE /\ ret' = "" /\ sigAt' = ""
    /\ UNCHANGED <<pages, disk>>

\* _load_checkpoint: if CHECKPOINT_FILE.exists(): checkpoint = json.load(f)
L_load_checkpoint ==
    /\ prog = "legacy" /\ pc = "l_load_checkpoint"
    /\ pc' = CASE disk[L_CHECKPOINT_FILE] = Absent    -> "l_fresh"     \* returns False
               [] disk[L_CHECKPOINT_FILE] = Truncated -> "failed"      \* JSONDecodeError
               [] OTHER                               -> "l_load_inventory"
    /\ UNCHANGED <<pages, disk, prog, self, locals, hist>>

\* _load_checkpoint: if INVENTORY_JSON.exists(): self.entries = data.get('entries', [])
L_load_inventory ==
    /\ prog = "legacy" /\ pc = "l_load_inventory"
    /\ CASE disk[L_INVENTORY_JSON] = Absent ->
              pc' = "l_load_fields" /\ UNCHANGED self
         [] disk[L_INVENTORY_JSON] = Truncated ->
              pc' = "failed" /\ UNCHANGED self
         [] OTHER ->
              /\ self' = [self EXCEPT !.entries = disk[L_INVENTORY_JSON].entries]
              /\ pc' = "l_load_fields"
    /\ UNCHANGED <<pages, disk, prog, locals, hist>>

\* _load_checkpoint: cursor, has_more, api_calls from the checkpoint; return True
L_load_fields ==
    /\ prog = "legacy" /\ pc = "l_load_fields"
    /\ self' = [self EXCEPT !.cursor = disk[L_CHECKPOINT_FILE].cursor,
                            !.has_more = disk[L_CHECKPOINT_FILE].has_more,
                            !.api_calls = disk[L_CHECKPOINT_FILE].api_calls]
    /\ loaded' = TRUE
    /\ pc' = "l_resume_check"
    /\ UNCHANGED <<pages, disk, prog, result, idx, attempt, new_count, resume, ret, sigAt, hist>>

\* run(): if resume and self._load_checkpoint() and self.cursor
L_resume_check ==
    /\ prog = "legacy" /\ pc = "l_resume_check"
    /\ pc' = IF self.cursor # NoCursor THEN "l_loop" ELSE "l_fresh"
    /\ hist' = [hist EXCEPT !.branch = IF self.cursor # NoCursor THEN "continue" ELSE @]
    /\ UNCHANGED <<pages, disk, prog, self, locals>>

\* run(), fresh start: entries = [], cursor = None, has_more = True, api_calls = 0
L_fresh ==
    /\ prog = "legacy" /\ pc = "l_fresh"
    /\ self' = [self EXCEPT !.entries = <<>>, !.cursor = NoCursor,
                            !.has_more = TRUE, !.api_calls = 0]
    /\ attempt' = 0
    /\ pc' = "l_root_call"
    /\ hist' = [hist EXCEPT !.branch = "fresh", !.call = EnterCall(0),
                            !.run = Issue(@, "files_list_folder", NoCursor)]
    /\ UNCHANGED <<pages, disk, prog, result, idx, new_count, loaded, resume, ret, sigAt>>

L_CallSites == {"l_root_call", "l_cont_call"}

\* _api_call: an attempt that returns
L_api_call_return ==
    /\ prog = "legacy" /\ pc \in L_CallSites
    /\ self' = [self EXCEPT !.api_calls = @ + 1]
    /\ result' = IF pc = "l_root_call" THEN files_list_folder
                 ELSE files_list_folder_continue(self.cursor)
    /\ idx' = 1
    /\ pc' = IF pc = "l_root_call" THEN "l_root_insert" ELSE "l_cont_insert"
    /\ hist' = [hist EXCEPT !.call = [@ EXCEPT !.invoked = @ + 1, !.kind = "",
                                               !.backoff = NoBackoff, !.slept = 0,
                                               !.outcome = "returned"]]
    /\ UNCHANGED <<pages, disk, prog, attempt, new_count, loaded, resume, ret, sigAt>>

\* _api_call: an attempt that raises RateLimitError or InternalServerError;
\* no caller in run() catches the RuntimeError
L_api_call_retry ==
    /\ prog = "legacy" /\ pc \in L_CallSites
    /\ MayFail
    /\ self' = [self EXCEPT !.api_calls = @ + 1]
    /\ \E f \in Failures :
          IF attempt + 1 < max_retries
          THEN /\ attempt' = attempt + 1
               /\ UNCHANGED pc
               /\ hist' = [hist EXCEPT !.faults = @ + 1,
                             !.call = [@ EXCEPT !.invoked = @ + 1, !.kind = f.kind,
                                                !.backoff = f.backoff,
                                                !.slept = Wait(f, attempt)]]
          ELSE /\ attempt' = 0                 \* RuntimeError("Max retries exceeded")
               /\ pc' = "failed"
               /\ hist' = [hist EXCEPT !.faults = @ + 1, !.raised = TRUE,
                             !.call = [@ EXCEPT !.invoked = @ + 1, !.kind = f.kind,
                                                !.backoff = f.backoff,
                                                !.slept = Wait(f, attempt),
                                                !.outcome = "RuntimeError"]]
    /\ UNCHANGED <<pages, disk, prog, result, idx, new_count, loaded, resume, ret, sigAt>>

\* _api_call: an attempt that raises ApiError; no caller in run() catches it
L_api_call_raise ==
    /\ prog = "legacy" /\ pc \in L_CallSites
    /\ MayFail
    /\ self' = [self EXCEPT !.api_calls = @ + 1]
    /\ attempt' = 0
    /\ pc' = "failed"
    /\ hist' = [hist EXCEPT !.faults = @ + 1, !.raised = TRUE,
                  !.call = [@ EXCEPT !.invoked = @ + 1, !.kind = "ApiError",
                                     !.backoff = NoBackoff, !.outcome = "ApiError"]]
    /\ UNCHANGED <<pages, disk, prog, result, idx, new_count, loaded, resume, ret, sigAt>>

\* the loop body of run(): if processed: self.entries.append(processed); entries_since_save += 1
L_append(s, e) ==
    IF e # NoEntry
    THEN [s EXCEPT !.entries = Append(@, e), !.entries_since_save = @ + 1]
    ELSE s

\* run(), initial listing: for entry in result.entries
L_root_insert ==
    /\ prog = "legacy" /\ pc = "l_root_insert"
    /\ IF idx <= Len(result.entries)
       THEN /\ self' = L_append(self, process_entry(result.entries[idx]))
            /\ idx' = idx + 1
            /\ UNCHANGED pc
       ELSE /\ pc' = "l_root_cursor"
            /\ UNCHANGED <<self, idx>>
    /\ UNCHANGED <<pages, disk, prog, result, attempt, new_count, loaded, resume, ret, sigAt, hist>>

\* run(), initial listing: self.cursor = result.cursor
L_root_cursor ==
    /\ prog = "legacy" /\ pc = "l_root_cursor"
    /\ self' = [self EXCEPT !.cursor = result.cursor]
    /\ pc' = "l_root_has_more"
    /\ UNCHANGED <<pages, disk, prog, locals, hist>>

\* run(), initial listing: self.has_more = result.has_more
L_root_has_more ==
    /\ prog = "legacy" /\ pc = "l_root_has_more"
    /\ self' = [self EXCEPT !.has_more = result.has_more]
    /\ pc' = "l_loop"
    /\ UNCHANGED <<pages, disk, prog, locals, hist>>

\* run(): while self.has_more and self.is_running
L_loop ==
    /\ prog = "legacy" /\ pc = "l_loop"
    /\ pc' = IF self.has_more /\ self.is_running THEN "l_cont_call" ELSE "l_final"
    /\ attempt' = 0
    /\ hist' = IF self.has_more /\ self.is_running
               THEN [hist EXCEPT !.call = EnterCall(self.api_calls), !.elapsed = FALSE,
                                 !.run = Issue(@, "files_list_folder_continue", self.cursor)]
               ELSE [hist EXCEPT !.elapsed = FALSE]
    /\ UNCHANGED <<pages, disk, prog, self, result, idx, new_count, loaded, resume, ret, sigAt>>

\* run(), pagination: for entry in result.entries
L_cont_insert ==
    /\ prog = "legacy" /\ pc = "l_cont_insert"
    /\ IF idx <= Len(result.entries)
       THEN /\ self' = L_append(self, process_entry(result.entries[idx]))
            /\ idx' = idx + 1
            /\ UNCHANGED pc
       ELSE /\ pc' = "l_cont_cursor"
            /\ UNCHANGED <<self, idx>>
    /\ UNCHANGED <<pages, disk, prog, result, attempt, new_count, loaded, resume, ret, sigAt, hist>>

\* run(), pagination: self.cursor = result.cursor
L_cont_cursor ==
    /\ prog = "legacy" /\ pc = "l_cont_cursor"
    /\ self' = [self EXCEPT !.cursor = result.cursor]
    /\ pc' = "l_cont_has_more"
    /\ UNCHANGED <<pages, disk, prog, locals, hist>>

\* run(), pagination: self.has_more = result.has_more
L_cont_has_more ==
    /\ prog = "legacy" /\ pc = "l_cont_has_more"
    /\ self' = [self EXCEPT !.has_more = result.has_more]
    /\ pc' = "l_should_save"
    /\ UNCHANGED <<pages, disk, prog, locals, hist>>

\* a _should_save that looks at the clock only
L_should_save_clock_only ==
    /\ prog = "legacy" /\ pc = "l_should_save"
    /\ \E elapsed \in BOOLEAN :
          /\ IF elapsed
             THEN pc' = "l_save_checkpoint_open" /\ ret' = "l_loop"
             ELSE pc' = "l_loop" /\ UNCHANGED ret
          /\ hist' = [hist EXCEPT !.elapsed = elapsed]
    /\ UNCHANGED <<pages, disk, prog, self, result, idx, attempt, new_count, loaded, resume, sigAt>>

\* _should_save: 60 seconds elapsed, or SAVE_INTERVAL_ENTRIES appended since the last save
L_should_save ==
    /\ prog = "legacy" /\ pc = "l_should_save"
    /\ \E elapsed \in BOOLEAN :
          /\ IF elapsed \/ self.entries_since_save >= SAVE_INTERVAL_ENTRIES
             THEN pc' = "l_save_checkpoint_open" /\ ret' = "l_loop"
             ELSE pc' = "l_loop" /\ UNCHANGED ret
          /\ hist' = [hist EXCEPT !.elapsed = elapsed]
    /\ UNCHANGED <<pages, disk, prog, self, result, idx, attempt, new_count, loaded, resume, sigAt>>

\* run(), final save: if self.is_running: self.has_more = False
L_final ==
    /\ prog = "legacy" /\ pc = "l_final"
    /\ IF self.is_running
       THEN /\ self' = [self EXCEPT !.has_more = FALSE]
            /\ pc' = "l_save_checkpoint_open" /\ ret' = "l_unlink"
       ELSE pc' = "done" /\ UNCHANGED <<self, ret>>
    /\ UNCHANGED <<pages, disk, prog, result, idx, attempt, new_count, loaded, resume, sigAt, hist>>

\* _save_checkpoint: open(CHECKPOINT_FILE, 'w')
L_save_checkpoint_open ==
    /\ prog = "legacy" /\ pc = "l_save_checkpoint_open"
    /\ Write(L_CHECKPOINT_FILE, Truncated)
    /\ pc' = "l_save_checkpoint_dump"
    /\ UNCHANGED <<pages, prog, self, locals, hist>>

\* _save_checkpoint: json.dump(checkpoint, f, indent=2) and close
L_save_checkpoint_dump ==
    /\ prog = "legacy" /\ pc = "l_save_checkpoint_dump"
    /\ Write(L_CHECKPOINT_FILE, L_CheckpointDoc(self))
    /\ pc' = "l_save_inventory_open"
    /\ hist' = [hist EXCEPT !.run.last = CkOf(L_CheckpointDoc(self))]
    /\ UNCHANGED <<pages, prog, self, locals>>

\* _save_inventory: open(INVENTORY_JSON, 'w')
L_save_inventory_open ==
    /\ prog = "legacy" /\ pc = "l_save_inventory_open"
    /\ Write(L_INVENTORY_JSON, Truncated)
    /\ pc' = "l_save_inventory_dump"
    /\ UNCHANGED <<pages, prog, self, locals, hist>>

\* _save_inventory: json.dump(...) and close, entries_since_save = 0;
\* back in run(), or sys.exit(0) when the caller is the signal handler
L_save_inventory_dump ==
    /\ prog = "legacy" /\ pc = "l_save_inventory_dump"
    /\ Write(L_INVENTORY_JSON, L_InventoryDoc(self))
    /\ self' = [self EXCEPT !.entries_since_save = 0]
    /\ pc' = IF ret = "exit" THEN "l_sys_exit" ELSE ret
    /\ ret' = ""
    /\ UNCHANGED <<pages, prog, result, idx, attempt, new_count, loaded, resume, sigAt, hist>>

\* run(): if CHECKPOINT_FILE.exists(): CHECKPOINT_FILE.unlink()
L_unlink ==
    /\ prog = "legacy" /\ pc = "l_unlink"
    /\ IF Exists(L_CHECKPOINT_FILE)
       THEN Write(L_CHECKPOINT_FILE, Absent)
       ELSE UNCHANGED disk
    /\ pc' = "done"
    /\ UNCHANGED <<pages, prog, self, locals, hist>>

\* _signal_handler: sys.exit(0), unwinding the interrupted frame as in H_sys_exit
L_sys_exit ==
    /\ prog = "legacy" /\ pc = "l_sys_exit"
    /\ IF sigAt \in OpenWrites
       THEN \E shifted \in BOOLEAN :
               Write(OuterFile(sigAt), Overlay(disk[OuterFile(sigAt)], shifted))
       ELSE UNCHANGED disk
    /\ pc' = "exited"
    /\ UNCHANGED <<pages, prog, self, locals, hist>>

\* _signal_handler: is_running = False, _save_checkpoint(), _save_inventory(), sys.exit(0)
L_signal_handler ==
    /\ prog = "legacy" /\ pc \notin Terminal
    /\ sigAt = ""
    /\ MayDisturb
    /\ self' = [self EXCEPT !.is_running = FALSE]
    /\ sigAt' = pc
    /\ ret' = "exit"
    /\ pc' = "l_save_checkpoint_open"
    /\ hist' = [hist EXCEPT !.faults = @ + 1, !.sigints = @ + 1,
                            !.sigMid = @ \/ pc \in MidPage]
    /\ UNCHANGED <<pages, disk, prog, result, idx, attempt, new_count, loaded, resume>>

Legacy ==
    \/ L_run \/ L_load_checkpoint \/ L_load_inventory \/ L_load_fields
    \/ L_resume_check \/ L_fresh
    \/ L_api_call_return \/ L_api_call_retry \/ L_api_call_raise
    \/ L_root_insert \/ L_root_cursor \/ L_root_has_more
    \/ L_loop \/ L_cont_insert \/ L_cont_cursor \/ L_cont_has_more \/ L_should_save
    \/ L_final \/ L_unlink
    \/ L_save_checkpoint_open \/ L_save_checkpoint_dump
    \/ L_save_inventory_open \/ L_save_inventory_dump
    \/ L_signal_handler \/ L_sys_exit

\* ============================================================ the process
\* run() has returned, sys.exit was called, or an exception left run()
Exit ==
    /\ prog # "none" /\ pc \in Terminal
    /\ prog' = "none"
    /\ pc' = "idle"
    /\ self' = NewObject
    /\ ResetLocals
    /\ UNCHANGED <<pages, disk, hist>>

\* the process is killed (SIGKILL, power loss): memory is gone, files stay
Kill ==
    /\ prog # "none" /\ pc \notin Terminal
    /\ MayDisturb
    /\ prog' = "none"
    /\ pc' = "idle"
    /\ self' = NewObject
    /\ ResetLocals
    /\ hist' = [hist EXCEPT !.faults = @ + 1, !.killed = TRUE]
    /\ UNCHANGED <<pages, disk>>

Hybrid ==
    \/ H_run \/ H_load_old_checkpoint \/ H_load_old_inventory
    \/ H_load_checkpoint \/ H_load_inventory \/ H_dispatch
    \/ H_api_call_return \/ H_api_call_retry \/ H_api_call_raise
    \/ H_root_insert \/ H_root_cursor \/ H_root_has_more
    \/ H_loop \/ H_cont_insert \/ H_cont_cursor \/ H_cont_has_more \/ H_maybe_save
    \/ H_final \/ H_unlink
    \/ H_save_checkpoint_open \/ H_save_checkpoint_dump
    \/ H_save_inventory_open \/ H_save_inventory_dump
    \/ H_signal_handler \/ H_sys_exit

Next == Hybrid \/ Legacy \/ Exit \/ Kill

Spec == Init /\ [][Next]_vars

\* The scheduling scenario: no process is killed, and a started process goes on
\* taking steps: the interpreter runs the next statement, a remote call returns or
\* fails, time.sleep() ends
NextLive == Hybrid \/ Legacy \/ Exit

Running == prog # "none" /\ NextLive

SpecLive == Init /\ [][NextLive]_vars /\ WF_vars(Running)

\* ================================================================ claims
\* What the API lists, in listing order, as entry dicts (unrecognised shapes dropped).
RECURSIVE ProcessAll(_)
ProcessAll(ms) ==
    IF ms = <<>> THEN <<>>
    ELSE LET e == process_entry(Head(ms))
         IN  (IF e = NoEntry THEN <<>> ELSE <<e>>) \o ProcessAll(Tail(ms))

RECURSIVE Flatten(_)
Flatten(ps) == IF ps = <<>> THEN <<>> ELSE Head(ps) \o Flatten(Tail(ps))

Listed == ProcessAll(Flatten(pages))

\* The retry scenario: no signal and no kill, and up to MaxFailures failing attempts,
\* enough for one _api_call to use up its retries. The disk is empty, or holds what
\* a legacy run wrote when it was interrupted after its first page.
AfterFirstPage ==
    [NewObject EXCEPT !.entries = ProcessAll(pages[1]), !.cursor = 1,
                      !.has_more = (1 < Len(pages)), !.api_calls = 1]

InitRetry ==
    /\ pages \in Traversals
    /\ disk \in { [f \in Files |-> Absent],
                  [f \in Files |-> CASE f = L_CHECKPOINT_FILE -> L_CheckpointDoc(AfterFirstPage)
                                     [] f = L_INVENTORY_JSON  -> L_InventoryDoc(AfterFirstPage)
                                     [] OTHER -> Absent] }
    /\ prog = "none"
    /\ pc = "idle"
    /\ self = NewObject
    /\ result = NoResult
    /\ idx = 0
    /\ attempt = 0
    /\ new_count = 0
    /\ loaded = FALSE
    /\ resume = FALSE
    /\ ret = ""
    /\ sigAt = ""
    /\ hist = [NoHist EXCEPT !.mode = "retry"]

NextRetry ==
    \/ H_run \/ H_load_old_checkpoint \/ H_load_old_inventory
    \/ H_load_checkpoint \/ H_load_inventory \/ H_dispatch
    \/ H_api_call_return \/ H_api_call_retry \/ H_api_call_raise
    \/ H_root_insert \/ H_root_cursor \/ H_root_has_more
    \/ H_loop \/ H_cont_insert \/ H_cont_cursor \/ H_cont_has_more \/ H_maybe_save
    \/ H_final \/ H_unlink
    \/ H_save_checkpoint_open \/ H_save_checkpoint_dump
    \/ H_save_inventory_open \/ H_save_inventory_dump
    \/ L_run \/ L_load_checkpoint \/ L_load_inventory \/ L_load_fields
    \/ L_resume_check \/ L_fresh
    \/ L_api_call_return \/ L_api_call_retry \/ L_api_call_raise
    \/ L_root_insert \/ L_root_cursor \/ L_root_has_more
    \/ L_loop \/ L_cont_insert \/ L_cont_cursor \/ L_cont_has_more \/ L_should_save
    \/ L_final \/ L_unlink
    \/ L_save_checkpoint_open \/ L_save_checkpoint_dump
    \/ L_save_inventory_open \/ L_save_inventory_dump
    \/ Exit

SpecRetry == InitRetry /\ [][NextRetry]_vars

\* The cadence scenario: the legacy enumerator alone, undisturbed, against listings
\* whose pages are large enough for SAVE_INTERVAL_ENTRIES to be reached.
BulkFile(i) ==
    [kind |-> "FileMetadata", path_display |-> "/f" \o ToString(i), suffix |-> "", size |-> 1]
BulkPage(n) == [i \in 1..n |-> BulkFile(i)]

CadenceTraversals ==
    { << BulkPage(SAVE_INTERVAL_ENTRIES - 1), <<mA, mAf>> >>,
      << BulkPage(SAVE_INTERVAL_ENTRIES), <<>> >>,
      << BulkPage(SAVE_INTERVAL_ENTRIES - 2), <<mB>> >>,
      << <<mA, mAf>>, BulkPage(SAVE_INTERVAL_ENTRIES) >>,
      << <<mA, mAf>>, <<mB, mDel>> >> }

\* the disk is empty, or (after a small first page) holds what a legacy run wrote
\* when it was interrupted after that page
InitCadence ==
    /\ pages \in CadenceTraversals
    /\ disk \in IF Len(pages[1]) < SAVE_INTERVAL_ENTRIES - 2
                THEN { [f \in Files |-> Absent],
                       [f \in Files |->
                           CASE f = L_CHECKPOINT_FILE -> L_CheckpointDoc(AfterFirstPage)
                             [] f = L_INVENTORY_JSON  -> L_InventoryDoc(AfterFirstPage)
                             [] OTHER -> Absent] }
                ELSE { [f \in Files |-> Absent] }
    /\ prog = "none"
    /\ pc = "idle"
    /\ self = NewObject
    /\ result = NoResult
    /\ idx = 0
    /\ attempt = 0
    /\ new_count = 0
    /\ loaded = FALSE
    /\ resume = FALSE
    /\ ret = ""
    /\ sigAt = ""
    /\ hist = [NoHist EXCEPT !.mode = "cadence"]

NextCadence ==
    \/ L_run \/ L_load_checkpoint \/ L_load_inventory \/ L_load_fields
    \/ L_resume_check \/ L_fresh
    \/ L_api_call_return
    \/ L_root_insert \/ L_root_cursor \/ L_root_has_more
    \/ L_loop \/ L_cont_insert \/ L_cont_cursor \/ L_cont_has_more \/ L_should_save
    \/ L_final \/ L_unlink
    \/ L_save_checkpoint_open \/ L_save_checkpoint_dump
    \/ L_save_inventory_open \/ L_save_inventory_dump
    \/ Exit

SpecCadence == InitCadence /\ [][NextCadence]_vars

\* ============================================================ the verifier
\* verify_inventory.py, main(): reads the hybrid inventory, asks the account for its
\* space usage, lists the root folder page by page (recursive=False) and compares.
\* In this scenario 'pages' is what that shallow listing serves; the inventory on
\* disk is what an earlier scan wrote. Sections 3 and 4 of main() (spot check,
\* entries by depth) only print and are left out.

\* pages of the shallow root listing
V_PageSet == { <<>>, <<mA, mFB>>, <<mFC, mD>>, <<mA, mDel>>, <<mFB, mFC>> }
V_Listings == { t \in SeqsUpTo(V_PageSet, MaxPages) : Len(t) >= 1 }

\* what earlier scans listed
V_Scans == { <<>>, <<mA, mAf>>, <<mA, mFB>>, <<mA, mAS, mFB, mFC>>, <<mA, mAf, mD>>, <<mFB, mB>> }

\* the object of a scan that listed ms in one page and finished
V_Scanned(ms) ==
    [add_entries(NewObject, ProcessAll(ms)) EXCEPT !.cursor = 1, !.has_more = FALSE,
                                                     !.api_calls = 1]

\* space.used: the figures the account can report
UsedSet == {0, 975, 976, 1024, 1077, 1078}

\* locals of main()
V_NewLocals ==
    [entries |-> <<>>, summary |-> <<>>, used |-> 0, diff |-> 0, usage |-> "",
     api_root_folders |-> <<>>, api_root_files |-> <<>>,
     missing_in_inventory |-> {}, extra_in_inventory |-> {},
     issues |-> <<>>, verdict |-> ""]

InitVerify ==
    /\ pages \in V_Listings
    /\ disk \in { [f \in Files |-> IF f = INVENTORY_JSON THEN d ELSE Absent] :
                    d \in { InventoryDoc(V_Scanned(ms)) : ms \in V_Scans } \cup {Absent} }
    /\ prog = "none"
    /\ pc = "idle"
    /\ self = NewObject
    /\ result = NoResult
    /\ idx = 0
    /\ attempt = 0
    /\ new_count = 0
    /\ loaded = FALSE
    /\ resume = FALSE
    /\ ret = ""
    /\ sigAt = ""
    /\ hist = [NoHist EXCEPT !.mode = "verify"]

\* [x for x in ms if isinstance(x, kind)] as paths
RECURSIVE PathsOfKind(_, _)
PathsOfKind(ms, kind) ==
    IF ms = <<>> THEN <<>>
    ELSE (IF Head(ms).kind = kind THEN <<Head(ms).path_display>> ELSE <<>>)
             \o PathsOfKind(Tail(ms), kind)

\* get_inventory_folders_at_depth(entries, depth)
RECURSIVE get_inventory_folders_at_depth(_, _)
get_inventory_folders_at_depth(es, depth) ==
    IF es = <<>> THEN <<>>
    ELSE (IF Head(es).type = "folder" /\ Head(es).folder_depth = depth
          THEN <<Head(es)>> ELSE <<>>)
             \o get_inventory_folders_at_depth(Tail(es), depth)

\* set(list)
SetOf(xs) == { xs[i] : i \in DOMAIN xs }

Abs(n) == IF n < 0 THEN -n ELSE n

\* diff_pct = (diff / used) * 100 if used > 0 else 0;  abs(diff_pct) < 5
UsageWithinTolerance(used, diff) ==
    IF used > 0 THEN Abs(diff) * 100 < 5 * used ELSE TRUE

\* main()
V_run ==
    /\ prog = "none"
    /\ hist.mode = "verify"
    /\ hist.runs < MaxRuns
    /\ prog' = "verify"
    /\ pc' = "v_load_inventory"
    /\ self' = V_NewLocals
    /\ hist' = [hist EXCEPT !.runs = @ + 1]
    /\ UNCHANGED <<pages, disk, locals>>

\* data = load_inventory(); entries = data['entries']; summary = data['summary']
V_load_inventory ==
    /\ prog = "verify" /\ pc = "v_load_inventory"
    /\ IF Readable(INVENTORY_JSON)
       THEN /\ self' = [self EXCEPT !.entries = disk[INVENTORY_JSON].entries,
                                    !.summary = disk[INVENTORY_JSON].summary]
            /\ pc' = "v_space_usage"
       ELSE /\ pc' = "failed"
            /\ UNCHANGED self
    /\ UNCHANGED <<pages, disk, prog, locals, hist>>

\* section 1: users_get_space_usage() returned
V_space_usage ==
    /\ prog = "verify" /\ pc = "v_space_usage"
    /\ \E used \in UsedSet :
         LET diff == used - self.summary.total_size_bytes
         IN  self' = [self EXCEPT !.used = used, !.diff = diff,
                                  !.usage = IF UsageWithinTolerance(used, diff)
                                            THEN "match" ELSE "difference"]
    /\ pc' = "v_list_root"
    /\ UNCHANGED <<pages, disk, prog, locals, hist>>

\* section 1: except Exception: "Could not get space usage"
V_space_usage_except ==
    /\ prog = "verify" /\ pc = "v_space_usage"
    /\ self' = [self EXCEPT !.usage = "unavailable"]
    /\ pc' = "v_list_root"
    /\ UNCHANGED <<pages, disk, prog, locals, hist>>

\* section 2: result = dbx.files_list_folder("", recursive=False) and the for loop
V_list_root ==
    /\ prog = "verify" /\ pc = "v_list_root"
    /\ result' = files_list_folder
    /\ self' = [self EXCEPT
                  !.api_root_folders = @ \o PathsOfKind(result'.entries, "FolderMetadata"),
                  !.api_root_files   = @ \o PathsOfKind(result'.entries, "FileMetadata")]
    /\ pc' = "v_list_loop"
    /\ UNCHANGED <<pages, disk, prog, idx, attempt, new_count, loaded, resume, ret, sigAt, hist>>

\* a continuation that takes over no folder of the page
V_list_continue_dropped ==
    /\ prog = "verify" /\ pc = "v_list_loop"
    /\ result.has_more
    /\ result' = files_list_folder_continue(result.cursor)
    /\ UNCHANGED <<pages, disk, prog, pc, self, idx, attempt, new_count, loaded, resume, ret, sigAt, hist>>

\* while result.has_more: result = dbx.files_list_folder_continue(result.cursor); for ...
V_list_continue ==
    /\ prog = "verify" /\ pc = "v_list_loop"
    /\ result.has_more
    /\ result' = files_list_folder_continue(result.cursor)
    /\ self' = [self EXCEPT
                  !.api_root_folders = @ \o PathsOfKind(result'.entries, "FolderMetadata"),
                  !.api_root_files   = @ \o PathsOfKind(result'.entries, "FileMetadata")]
    /\ UNCHANGED <<pages, disk, prog, pc, idx, attempt, new_count, loaded, resume, ret, sigAt, hist>>

\* section 2: inv_root_folders, api_set, inv_set, missing_in_inventory, extra_in_inventory
V_compare ==
    /\ prog = "verify" /\ pc = "v_list_loop"
    /\ ~result.has_more
    /\ LET inv_root_folders == get_inventory_folders_at_depth(self.entries, 1)
           inv_root_paths   == [i \in DOMAIN inv_root_folders |-> inv_root_folders[i].path]
           api_set          == SetOf(self.api_root_folders)
           inv_set          == SetOf(inv_root_paths)
       IN  self' = [self EXCEPT !.missing_in_inventory = api_set \ inv_set,
                                !.extra_in_inventory   = inv_set \ api_set]
    /\ pc' = "v_summary"
    /\ UNCHANGED <<pages, disk, prog, locals, hist>>

\* section 5: issues, and the closing verdict
V_summary ==
    /\ prog = "verify" /\ pc = "v_summary"
    /\ LET issues == IF self.missing_in_inventory # {}
                     THEN <<[issue |-> "Missing root folders",
                             n |-> Cardinality(self.missing_in_inventory)]>>
                     ELSE <<>>
       IN  self' = [self EXCEPT !.issues = issues,
                                !.verdict = IF issues # <<>> THEN "ISSUES FOUND"
                                            ELSE "INVENTORY APPEARS COMPLETE"]
    /\ pc' = "done"
    /\ UNCHANGED <<pages, disk, prog, locals, hist>>

Verifier ==
    \/ V_run \/ V_load_inventory
    \/ V_space_usage \/ V_space_usage_except
    \/ V_list_root \/ V_list_continue
    \/ V_compare \/ V_summary

NextVerify == Verifier \/ Exit

SpecVerify == InitVerify /\ [][NextVerify]_vars

PathsOf(es) == { es[i].path : i \in DOMAIN es }
EntrySet(es) == { es[i] : i \in DOMAIN es }
NoDupPaths(es) == \A i, j \in DOMAIN es : i # j => es[i].path # es[j].path

\* first-seen-wins: es without the entries whose path occurred earlier in es
FirstSeen(es) ==
    { es[i] : i \in { k \in DOMAIN es : \A j \in 1..(k - 1) : es[j].path # es[k].path } }

FileIdx(es) == { i \in DOMAIN es : es[i].type = "file" }

RECURSIVE SumOver(_, _)
SumOver(es, I) ==
    IF I = {} THEN 0
    ELSE LET i == CHOOSE k \in I : TRUE IN es[i].size_bytes + SumOver(es, I \ {i})

BucketOf(e) == IF e.extension = "None" THEN "(none)" ELSE e.extension
Buckets(es) == { BucketOf(es[i]) : i \in FileIdx(es) }
BucketCount(es, b) == Cardinality({ i \in FileIdx(es) : BucketOf(es[i]) = b })

\* the summary figures an inventory of exactly the entries es must carry
FiguresAgree(sm, es) ==
    /\ sm.total_entries = Len(es)
    /\ sm.total_files = Cardinality(FileIdx(es))
    /\ sm.total_folders = Len(es) - Cardinality(FileIdx(es))
    /\ sm.total_size_bytes = SumOver(es, FileIdx(es))
    /\ DOMAIN sm.file_types = Buckets(es)
    /\ \A b \in Buckets(es) : sm.file_types[b] = BucketCount(es, b)

\* the same figures for a set of entries (no two with the same path)
RECURSIVE SumSet(_)
SumSet(S) ==
    IF S = {} THEN 0
    ELSE LET e == CHOOSE x \in S : TRUE
         IN  (IF e.type = "file" THEN e.size_bytes ELSE 0) + SumSet(S \ {e})

FiguresOfSet(sm, S) ==
    LET F == { e \in S : e.type = "file" }
    IN  /\ sm.total_entries = Cardinality(S)
        /\ sm.total_files = Cardinality(F)
        /\ sm.total_folders = Cardinality(S \ F)
        /\ sm.total_size_bytes = SumSet(S)
        /\ DOMAIN sm.file_types = { BucketOf(e) : e \in F }
        /\ \A b \in { BucketOf(e) : e \in F } :
               sm.file_types[b] = Cardinality({ e \in F : BucketOf(e) = b })

\* the run in progress has returned from run() with the traversal exhausted
Completed(p) == prog = p /\ pc = "done" /\ ~self.has_more

\* nothing but SIGINTs between pages has disturbed the behaviour, and at most one
Undisturbed == ~hist.killed /\ ~hist.raised /\ ~hist.sigMid

C2_NothingLost ==
    (hist.killed /\ hist.sigints = 0 /\ ~hist.raised) =>
        /\ Completed("hybrid") =>
              /\ Readable(INVENTORY_JSON)
              /\ PathsOf(disk[INVENTORY_JSON].entries) = PathsOf(Listed)
              /\ NoDupPaths(disk[INVENTORY_JSON].entries)
        /\ Completed("legacy") =>
              /\ Readable(L_INVENTORY_JSON)
              /\ PathsOf(Listed) \subseteq PathsOf(disk[L_INVENTORY_JSON].entries)

\* C3 (as claimed, for crashes of runs that no SIGINT interrupted): no file that a
\* next run can load is ever an empty or partly written document.
C3_AllOrNothing ==
    (prog = "none" /\ hist.sigints = 0) => \A f \in Files : disk[f] # Truncated

\* C4 (hybrid): a run that starts with the root listing and pages through to
\* has_more = false without interrupt or fatal error leaves an inventory holding
\* exactly one entry per listed path, and the summary counts each of them; on a disk
\* that was empty before, the figures are those of the first-seen entries.
C4_Completeness ==
    (Completed("hybrid") /\ hist.branch = "fresh") =>
        /\ Readable(INVENTORY_JSON)
        /\ PathsOf(disk[INVENTORY_JSON].entries) = PathsOf(Listed)
        /\ NoDupPaths(disk[INVENTORY_JSON].entries)
        /\ disk[INVENTORY_JSON].summary.total_entries = Cardinality(PathsOf(Listed))
        /\ disk[INVENTORY_JSON].summary.total_files
             = Cardinality({ e.path : e \in { x \in EntrySet(Listed) : x.type = "file" } })
        /\ disk[INVENTORY_JSON].summary.total_folders
             = Cardinality({ e.path : e \in { x \in EntrySet(Listed) : x.type = "folder" } })
        /\ hist.runs = 1 => FiguresOfSet(disk[INVENTORY_JSON].summary, FirstSeen(Listed))

\* the end-to-end scenario: [folder /A, file /A/f.txt 1024] then [file /B.txt 2048]
C4_Witness ==
    /\ Completed("hybrid") /\ hist.branch = "fresh" /\ hist.runs = 1
    /\ pages = << <<mA, mAf>>, <<mB, mDel>> >>
    /\ Readable(INVENTORY_JSON)
    /\ disk[INVENTORY_JSON].summary.total_files = 2
    /\ disk[INVENTORY_JSON].summary.total_folders = 1
    /\ disk[INVENTORY_JSON].summary.total_size_bytes = 3072

\* C5 (hybrid and legacy): when run() returns with has_more = false, the checkpoint
\* file does not exist and the inventory file exists with status 'complete'.
C5_CheckpointCleared ==
    /\ Completed("hybrid") =>
          /\ disk[CHECKPOINT_FILE] = Absent
          /\ Readable(INVENTORY_JSON)
          /\ disk[INVENTORY_JSON].summary.status = "complete"
    /\ Completed("legacy") =>
          /\ disk[L_CHECKPOINT_FILE] = Absent
          /\ Readable(L_INVENTORY_JSON)
          /\ disk[L_INVENTORY_JSON].summary.status = "complete"

\* a run that found a checkpoint, continued from it and returned
C5_Witness ==
    /\ pc = "done" /\ ~self.has_more /\ hist.branch = "continue"
    /\ prog \in {"hybrid", "legacy"}

IsPrefix(a, b) == Len(a) <= Len(b) /\ \A i \in DOMAIN a : b[i] = a[i]

\* C6 (as claimed, for a listing that offers every path once): in every reachable
\* state of either enumerator no two records of the entries list have the same path.
C6_PathsUnique == NoDupPaths(Listed) => NoDupPaths(self.entries)

\* C7 (hybrid): an insert appends the record and indexes it when its path is new
\* (counted by new_count in the pagination loop), and changes neither the list nor
\* the index when the path is already stored; whatever the step, short of emptying
\* the store to reload it, the records already stored stay as they are.
C7_InsertOnce ==
    [][ (prog = "hybrid" /\ prog' = "hybrid") =>
          /\ (pc \in {"h_root_insert", "h_cont_insert"} /\ idx <= Len(result.entries)
                /\ idx' = idx + 1) =>
               LET e == process_entry(result.entries[idx])
                   fresh == e # NoEntry /\ \A i \in DOMAIN self.entries : self.entries[i].path # e.path
               IN  IF fresh
                   THEN /\ self'.entries = Append(self.entries, e)
                        /\ DOMAIN self'.entries_by_path = DOMAIN self.entries_by_path \cup {e.path}
                        /\ self'.entries_by_path[e.path] = e
                        /\ pc = "h_cont_insert" => new_count' = new_count + 1
                   ELSE /\ self'.entries = self.entries
                        /\ self'.entries_by_path = self.entries_by_path
                        /\ new_count' = new_count
          /\ pc # "h_load_inventory" =>
               /\ IsPrefix(self.entries, self'.entries)
               /\ \A q \in DOMAIN self.entries_by_path :
                     /\ q \in DOMAIN self'.entries_by_path
                     /\ self'.entries_by_path[q] = self.entries_by_path[q]
      ]_vars

\* the listing offered /B.txt a second time with another size; the store still
\* holds the record seen first
C7_Witness ==
    /\ prog = "hybrid" /\ pc = "h_cont_insert"
    /\ idx >= 2 /\ result.entries[idx - 1] = mB2
    /\ "/B.txt" \in DOMAIN self.entries_by_path
    /\ self.entries_by_path["/B.txt"].size_bytes = 2048
    /\ new_count < idx - 1

InventoryFiles  == {INVENTORY_JSON, L_INVENTORY_JSON}
CheckpointFiles == {CHECKPOINT_FILE, L_CHECKPOINT_FILE}

\* C8 (hybrid and legacy): every inventory document on disk carries the figures of
\* its own entries: total_size_bytes is the sum of size_bytes over the entries of
\* type 'file', total_files + total_folders = total_entries = number of entries, and
\* the per-extension counts are those of the files and add up to total_files.
C8_AggregateCorrect ==
    \A f \in InventoryFiles :
        Readable(f) =>
            /\ FiguresAgree(disk[f].summary, disk[f].entries)
            /\ disk[f].summary.total_files + disk[f].summary.total_folders
                 = disk[f].summary.total_entries

\* an inventory on disk with a folder and files in two extension buckets
C8_Witness ==
    \E f \in InventoryFiles :
        /\ Readable(f)
        /\ disk[f].summary.total_folders >= 1
        /\ Cardinality(DOMAIN disk[f].summary.file_types) = 2
        /\ disk[f].summary.total_size_bytes > 0

\* C9 (as claimed, for behaviours without any disturbance): the checkpoint file
\* never holds a cursor together with has_more = false.
C9_NoContradictoryCheckpoint ==
    hist.faults = 0 =>
        \A f \in CheckpointFiles :
            Readable(f) => ~(disk[f].cursor # NoCursor /\ ~disk[f].has_more)

Contradictory(f) == Readable(f) /\ disk[f].cursor # NoCursor /\ ~disk[f].has_more

\* C10 (as claimed): after loading a checkpoint file that holds a cursor together
\* with has_more = false, the enumerator has not taken over its cursor and has_more,
\* and the load has not reported progress.
C10_ContradictionRejected ==
    /\ (prog = "hybrid" /\ pc = "h_dispatch" /\ Contradictory(CHECKPOINT_FILE)) =>
          /\ ~(self.cursor = disk[CHECKPOINT_FILE].cursor
                 /\ self.has_more = disk[CHECKPOINT_FILE].has_more)
          /\ ~loaded
    /\ (prog = "legacy" /\ pc = "l_resume_check" /\ Contradictory(L_CHECKPOINT_FILE)) =>
          /\ ~(self.cursor = disk[L_CHECKPOINT_FILE].cursor
                 /\ self.has_more = disk[L_CHECKPOINT_FILE].has_more)
          /\ ~loaded

CallSites == H_CallSites \cup L_CallSites
Fatal     == {"ApiError", "RuntimeError"}
Transient == {"RateLimitError", "InternalServerError"}
OwnCheckpoint == IF prog = "hybrid" THEN CHECKPOINT_FILE ELSE L_CHECKPOINT_FILE
OwnInventory  == IF prog = "hybrid" THEN INVENTORY_JSON ELSE L_INVENTORY_JSON

\* C11 (hybrid and legacy): a step removes a checkpoint file only as the unlink at
\* the end of run() of the enumerator that owns it, when has_more is false (and was
\* false in the last page this run fetched, if it fetched one), no SIGINT was
\* handled, the last remote call did not end in an error, and the inventory file
\* holds status 'complete' and every entry the enumerator holds.
C11_UnlinkOnlyOnCompletion ==
    [][ \A f \in CheckpointFiles :
          (disk[f] # Absent /\ disk'[f] = Absent) =>
              /\ pc \in {"h_unlink", "l_unlink"} /\ f = OwnCheckpoint
              /\ ~self.has_more /\ self.is_running
              /\ result # NoResult => ~result.has_more
              /\ hist.call.outcome \notin Fatal
              /\ Readable(OwnInventory)
              /\ disk[OwnInventory].summary.status = "complete"
              /\ disk[OwnInventory].entries = self.entries
      ]_vars

\* a hybrid run has fetched two pages, saved and removed its checkpoint
C11_Witness ==
    /\ prog = "hybrid" /\ pc = "done" /\ hist.runs = 1
    /\ result.cursor = 2 /\ ~result.has_more
    /\ disk[CHECKPOINT_FILE] = Absent /\ Readable(INVENTORY_JSON)

\* C12 (hybrid and legacy): the attempt on which the operation raises ApiError is
\* counted, is followed by no sleep and by no further attempt, and ends the
\* _api_call with that error in the caller's hands; when no attempt of the call
\* failed otherwise before, the operation was invoked exactly once.
C12_PermanentNotRetried ==
    [][ /\ (hist'.call.kind = "ApiError" /\ hist.call.kind # "ApiError") =>
              /\ pc \in CallSites
              /\ hist'.call.invoked = hist.call.invoked + 1
              /\ hist'.call.slept = hist.call.slept
              /\ hist'.call.outcome = "ApiError"
              /\ pc' = IF pc = "h_cont_call" THEN "h_final" ELSE "failed"
        /\ hist.call.kind = "ApiError" =>
              /\ pc \notin CallSites
              /\ hist.call.outcome = "ApiError"
              /\ hist.call.slept = 0 => hist.call.invoked = 1
              /\ hist'.call.kind = "ApiError" =>
                    /\ hist'.call.invoked = hist.call.invoked
                    /\ hist'.call.slept = hist.call.slept
      ]_vars

\* the first attempt of the root listing raised ApiError and run() was left
C12_Witness ==
    /\ hist.call.outcome = "ApiError" /\ hist.call.invoked = 1
    /\ pc = "failed" /\ self.api_calls = hist.call.base + 1

\* C13 (hybrid and legacy): one _api_call invokes the operation at most 5 times; an
\* attempt is made only while fewer than 5 were; the call that returns hands over the
\* response of the attempt that succeeded; RuntimeError ends exactly the calls
\* whose 5 attempts all failed with RateLimitError or InternalServerError.
C13_RetryBudget ==
    /\ hist.call.invoked <= 5
    /\ pc \in CallSites =>
          /\ hist.call.outcome = ""
          /\ hist.call.invoked = attempt /\ attempt < 5
          /\ hist.call.invoked > 0 => hist.call.kind \in Transient
    /\ hist.call.outcome = "RuntimeError" =>
          /\ hist.call.invoked = 5 /\ hist.call.kind \in Transient
          /\ pc \notin CallSites
    /\ (hist.call.outcome = "returned" /\ idx = 1
          /\ pc \in {"h_root_insert", "h_cont_insert", "l_root_insert", "l_cont_insert"}) =>
          result = IF pc \in {"h_root_insert", "l_root_insert"}
                   THEN [entries |-> pages[1], cursor |-> 1, has_more |-> 1 < Len(pages)]
                   ELSE IF self.cursor < Len(pages)
                   THEN [entries |-> pages[self.cursor + 1], cursor |-> self.cursor + 1,
                         has_more |-> self.cursor + 1 < Len(pages)]
                   ELSE [entries |-> <<>>, cursor |-> self.cursor, has_more |-> FALSE]

\* five attempts of one call failed with rate limits or server errors
C13_Witness ==
    /\ hist.call.outcome = "RuntimeError" /\ hist.call.invoked = 5
    /\ self.api_calls = hist.call.base + 5

\* C14 (as claimed): after an attempt k (0-based) that failed with a rate limit the
\* sleep was the wait the server supplied, if it supplied one, and 2^k seconds
\* otherwise; after one that failed with a server error it was 2^k seconds.
C14_BackoffDurations ==
    hist.call.kind \in Transient =>
        hist.call.slept =
            IF hist.call.kind = "RateLimitError" /\ hist.call.backoff # NoBackoff
            THEN hist.call.backoff
            ELSE Pow2(hist.call.invoked - 1)

\* C15 (hybrid and legacy): every invocation of the remote operation adds exactly 1
\* to api_calls, whatever its outcome; no other step of the enumeration changes it
\* (the load and the fresh start set it before the enumeration begins); and while an
\* _api_call runs and when it ends, api_calls is its value on entry plus the attempts made.
C15_CallCounting ==
    [][ /\ hist'.call.invoked = hist.call.invoked + 1 =>
              self'.api_calls = self.api_calls + 1
        /\ (prog' = prog /\ prog # "none"
              /\ pc \notin {"h_load_checkpoint", "l_load_fields", "l_fresh"}
              /\ hist'.call.invoked # hist.call.invoked + 1) =>
              self'.api_calls = self.api_calls
        /\ (prog' = prog /\ (pc \in CallSites \/ pc' \in CallSites)) =>
              self'.api_calls = hist'.call.base + hist'.call.invoked
      ]_vars

\* a call that was entered with calls already counted returned on its third attempt
C15_Witness ==
    /\ hist.call.outcome = "returned" /\ hist.call.invoked = 3
    /\ hist.call.base > 0 /\ self.api_calls = hist.call.base + 3

\* C16 (as claimed, the failing call being the only disturbance): when run() ends
\* after a remote call ended in ApiError or RuntimeError, the enumerator's checkpoint
\* file exists and holds its cursor, and its inventory file holds its entries.
C16_FatalErrorSaves ==
    (prog # "none" /\ pc \in Terminal /\ hist.call.outcome \in Fatal /\ hist.faults = 1) =>
        /\ Readable(OwnCheckpoint)
        /\ disk[OwnCheckpoint].cursor = self.cursor
        /\ Readable(OwnInventory)
        /\ disk[OwnInventory].entries = self.entries

\* C17 (as claimed): a hybrid run that no SIGINT interrupted and that stopped
\* because a remote call ended in ApiError or RuntimeError ends with a non-zero
\* exit status.
C17_FatalErrorReported ==
    (prog = "hybrid" /\ pc \in Terminal /\ hist.call.outcome \in Fatal /\ hist.sigints = 0) =>
        ExitStatus(pc) # 0

\* C18 (as claimed): the save of the signal handler never runs for a SIGINT that
\* arrived while a remote call was outstanding or while a page was partly taken
\* over (entries inserted, cursor or has_more not yet updated).
C18_SaveAtPageBoundary ==
    ret = "exit" => sigAt \notin (MidPage \cup CallSites)

\* C19 (as claimed, for SIGINTs between pages): the hybrid enumerator never asks for a continuation page with
\* the cursor of a legacy checkpoint that counts entries while the legacy inventory
\* is missing or unreadable and none of these entries is loaded.
C19_MigrationLoud ==
    ~ /\ prog = "hybrid" /\ pc = "h_cont_call"
      /\ disk[CHECKPOINT_FILE] = Absent
      /\ Readable(OLD_CHECKPOINT)
      /\ disk[OLD_CHECKPOINT].cursor = self.cursor
      /\ disk[OLD_CHECKPOINT].entries_count > 0
      /\ ~Readable(OLD_INVENTORY_JSON)
      /\ self.entries = <<>>
      /\ ~hist.sigMid

\* C20 (as claimed, for behaviours without SIGINT): a run that found its checkpoint
\* file truncated never goes on to the root listing.
C20_CorruptionLoud ==
    /\ ~(prog = "hybrid" /\ pc = "h_root_call" /\ disk[CHECKPOINT_FILE] = Truncated
           /\ hist.sigints = 0)
    /\ ~(prog = "legacy" /\ resume /\ pc \in {"l_fresh", "l_root_call"}
           /\ disk[L_CHECKPOINT_FILE] = Truncated)

\* ------------------------------------------------------------- C21 .. C30
\* root folder paths the shallow listing returns, over all its pages
ApiRootFolders ==
    { Flatten(pages)[i].path_display :
        i \in { k \in DOMAIN Flatten(pages) : Flatten(pages)[k].kind = "FolderMetadata" } }

\* paths of the depth-1 folders of the inventory on disk
InvRootFolders ==
    { e.path : e \in { x \in EntrySet(disk[INVENTORY_JSON].entries) :
                         x.type = "folder" /\ x.folder_depth = 1 } }

\* C21: once the verifier has compared, the set it reports as missing is exactly the
\* root folder paths the API returned that are not depth-1 folders of the inventory,
\* the set it reports as extra is exactly the reverse difference, and its summary
\* lists an issue exactly when some path is missing (extra paths alone raise none).
C21_RootSetCheck ==
    (prog = "verify" /\ pc \in {"v_summary", "done"}) =>
        /\ self.missing_in_inventory = ApiRootFolders \ InvRootFolders
        /\ self.extra_in_inventory = InvRootFolders \ ApiRootFolders
        /\ pc = "done" => ((self.issues # <<>>) <=> (self.missing_in_inventory # {}))

\* inventory {/A, /B} against a two-page listing {/A, /B} + {/C}: /C reported missing
C21_Witness ==
    /\ prog = "verify" /\ pc = "done"
    /\ Len(pages) = 2
    /\ InvRootFolders = {"/A", "/B"}
    /\ ApiRootFolders = {"/A", "/B", "/C"}
    /\ self.missing_in_inventory = {"/C"}
    /\ self.issues # <<>>

\* C22 (as claimed): once the usage check was performed, it accepted exactly when
\* |used - inv| / used is below 5%; with used = 0 and inv > 0 it did not accept.
C22_UsageCheck ==
    (prog = "verify" /\ self.usage \in {"match", "difference"}) =>
        LET inv == self.summary.total_size_bytes
        IN  /\ self.used > 0 =>
                ((self.usage = "match") <=> (Abs(self.used - inv) * 100 < 5 * self.used))
            /\ (self.used = 0 /\ inv > 0) => self.usage # "match"

\* C23: in the legacy enumerator, after a continuation page the loop is re-entered
\* without a save only if 60 seconds had not elapsed and fewer than
\* SAVE_INTERVAL_ENTRIES entries (root page included) were appended since the last save;
\* otherwise the checkpoint and the inventory are written, in that order, before the
\* loop goes on, both describe the object, and entries_since_save is 0 after the save.
C23_SaveCadence ==
    [][ (prog = "legacy" /\ prog' = "legacy") =>
          /\ (pc = "l_should_save" /\ pc' # pc) =>
                /\ pc' \in {"l_loop", "l_save_checkpoint_open"}
                /\ pc' = "l_loop" =>
                      (~hist'.elapsed /\ self.entries_since_save < SAVE_INTERVAL_ENTRIES)
                /\ pc' = "l_save_checkpoint_open" => ret' = "l_loop"
          /\ (pc = "l_save_inventory_dump" /\ ret = "l_loop") =>
                /\ pc' = "l_loop"
                /\ disk'[L_CHECKPOINT_FILE] = L_CheckpointDoc(self)
                /\ disk'[L_INVENTORY_JSON] = L_InventoryDoc(self)
                /\ self'.entries_since_save = 0
          /\ (ret = "l_loop" /\ pc' # pc /\ pc \in {"l_save_checkpoint_open", "l_save_checkpoint_dump",
                                                  "l_save_inventory_open"}) =>
                pc' \in {"l_save_checkpoint_dump", "l_save_inventory_open", "l_save_inventory_dump"}
      ]_vars

\* a save forced by the count alone, the root page's entries included: the clock had
\* not run out, the root page brought one entry less than the interval, the
\* continuation page the rest, and both files are written
C23_Witness ==
    /\ prog = "legacy" /\ pc = "l_loop"
    /\ hist.runs = 1
    /\ ~hist.elapsed
    /\ Len(pages[1]) = SAVE_INTERVAL_ENTRIES - 1
    /\ self.cursor = 2
    /\ self.entries_since_save = 0
    /\ Readable(L_CHECKPOINT_FILE) /\ disk[L_CHECKPOINT_FILE].cursor = 2
    /\ Readable(L_INVENTORY_JSON)
    /\ Len(disk[L_INVENTORY_JSON].entries) = SAVE_INTERVAL_ENTRIES + 1

\* positions of the root listing: the call and the taking over of its page
RootPositions == {"h_root_call", "h_root_insert", "h_root_cursor", "h_root_has_more",
                  "l_fresh", "l_root_call", "l_root_insert", "l_root_cursor", "l_root_has_more"}

\* C24: a run that started from a loaded checkpoint with a cursor and has_more = true
\* is never at the root listing, has asked for no root listing, and the first remote
\* operation it asks for is a continuation carrying exactly the persisted cursor.
C24_ResumeSkipsRoot ==
    (prog \in {"hybrid", "legacy"} /\ hist.run.ck.loaded
        /\ hist.run.ck.cursor # NoCursor /\ hist.run.ck.has_more) =>
        /\ pc \notin RootPositions
        /\ hist.run.roots = 0
        /\ hist.run.first # NoFirst =>
              hist.run.first = [op |-> "files_list_folder_continue",
                                cursor |-> hist.run.ck.cursor]

\* a second run resumed from the checkpoint of an interrupted one has finished after
\* asking first for the continuation from the persisted cursor
C24_Witness ==
    /\ prog \in {"hybrid", "legacy"} /\ pc = "done"
    /\ hist.runs = 2
    /\ hist.run.ck.loaded /\ hist.run.ck.cursor = 1 /\ hist.run.ck.has_more
    /\ hist.run.first = [op |-> "files_list_folder_continue", cursor |-> 1]
    /\ self.cursor = 2

\* the loaded state the spec calls unusable: no cursor, or has_more = false with no entry
Unusable(s) == s.cursor = NoCursor \/ (~s.has_more /\ s.entries = <<>>)

\* C25 (as claimed): when a run leaves its loading phase (not by a SIGINT) it goes to
\* the root listing exactly when the loaded state is unusable (legacy: looked at
\* for accounts that list something); a run asks for the root listing at most
\* once, and only on leaving the loading phase.
C25_FreshStartCondition ==
    [][ (prog' = prog /\ prog \in {"hybrid", "legacy"} /\ sigAt' = sigAt) =>
          /\ pc = "h_dispatch" => ((pc' = "h_root_call") <=> Unusable(self))
          /\ (pc = "l_resume_check" /\ Listed # <<>>) =>
                ((pc' = "l_fresh") <=> Unusable(self))
          /\ hist'.run.roots <= 1
          /\ hist'.run.roots # hist.run.roots =>
                (pc \in {"h_dispatch", "l_fresh"} /\ pc' \in {"h_root_call", "l_root_call"})
      ]_vars

\* C26: in the hybrid enumerator's continuation loop, whatever the page added to the
\* store (new_count = 0 included): the end of the page is followed by taking over
\* the page's cursor and then its has_more, no step of the page ends the run, the
\* loop asks for another page exactly when has_more and is_running hold, and the
\* page asked for is the one at the cursor last taken over.
C26_CursorDrivesPagination ==
    [][ (prog = "hybrid" /\ prog' = "hybrid" /\ sigAt' = sigAt) =>
          /\ (pc = "h_cont_insert" /\ pc' # pc) => pc' = "h_cont_cursor"
          /\ pc = "h_cont_cursor" =>
                (pc' = "h_cont_has_more" /\ self'.cursor = result.cursor)
          /\ pc = "h_cont_has_more" =>
                (pc' = "h_maybe_save" /\ self'.has_more = result.has_more)
          /\ pc = "h_loop" => ((pc' = "h_cont_call") <=> (self.has_more /\ self.is_running))
          /\ (pc = "h_cont_call" /\ result # NoResult) => self.cursor = result.cursor
          /\ (pc = "h_cont_call" /\ pc' = "h_cont_insert") =>
                result' = files_list_folder_continue(self.cursor)
      ]_vars

\* a resumed run got a continuation page of entries that were all in the store already
\* and went on to the loop test with that page's cursor and has_more
C26_Witness ==
    /\ prog = "hybrid" /\ pc = "h_loop"
    /\ hist.runs = 2
    /\ result.entries # <<>>
    /\ PathsOf(ProcessAll(result.entries)) # {}
    /\ new_count = 0
    /\ result.cursor = 2
    /\ self.cursor = result.cursor
    /\ self.has_more = result.has_more

\* a file of the running program holds an inventory document marked complete
WroteComplete(f) ==
    /\ disk[f] \notin {Absent, Truncated}
    /\ disk[f].kind = "inventory"
    /\ disk[f].summary.status = "complete"

\* C27: in a run that found no checkpoint to load, has_more = false in the object
\* implies that the listing response received last reported has_more = false, and
\* every step of such a run that writes an inventory marked complete is taken with
\* such a response in hand.
C27_HasMoreFromApi ==
    [][ (prog \in {"hybrid", "legacy"} /\ prog' = prog /\ ~hist.run.ck.loaded) =>
          /\ ~self'.has_more => (result' # NoResult /\ ~result'.has_more)
          /\ \A f \in Files :
                (disk'[f] # disk[f] /\ disk'[f] \notin {Absent, Truncated}
                   /\ disk'[f].kind = "inventory" /\ disk'[f].summary.status = "complete") =>
                      (result # NoResult /\ ~result.has_more)
      ]_vars

\* a first run reached the end of the listing on the second page and wrote the
\* inventory marked complete
C27_Witness ==
    /\ prog \in {"hybrid", "legacy"} /\ pc = "done"
    /\ hist.runs = 1
    /\ ~hist.run.ck.loaded
    /\ ~self.has_more
    /\ result.cursor = 2 /\ ~result.has_more
    /\ WroteComplete(OwnInventory)

\* C28 (as claimed, no process killed): every checkpoint that a run which continued
\* from a loaded cursor writes on its own (periodic or final save) carries api_calls and entries_count at
\* least those of the checkpoint persisted before it: the one this run wrote last,
\* or else the one it loaded when it started.
C28_CountersMonotone ==
    [][ (prog \in {"hybrid", "legacy"} /\ prog' = prog
           /\ pc \in {"h_save_checkpoint_dump", "l_save_checkpoint_dump"}
           /\ disk'[OwnCheckpoint] # disk[OwnCheckpoint]
           /\ hist.run.last.loaded
           /\ hist.branch = "continue" /\ sigAt = "" /\ ~hist.killed) =>
          /\ disk'[OwnCheckpoint].api_calls >= hist.run.last.api_calls
          /\ disk'[OwnCheckpoint].entries_count >= hist.run.last.entries_count
      ]_vars

\* C29: when SIGINT arrived while the main flow had a checkpoint or inventory file open
\* for writing, then after the handler's save and the exit of the process the
\* checkpoint file and the inventory file each hold the complete document of the
\* in-memory state
C29_InterruptedSaveSnapshot ==
    (prog \in {"hybrid", "legacy"} /\ pc = "exited" /\ sigAt \in OpenWrites) =>
        /\ disk[OwnCheckpoint] =
              (IF prog = "hybrid" THEN CheckpointDoc(self) ELSE L_CheckpointDoc(self))
        /\ disk[OwnInventory] =
              (IF prog = "hybrid" THEN InventoryDoc(self) ELSE L_InventoryDoc(self))

\* the ways a run can end
Complete    == pc = "done" /\ ~self.has_more /\ ~Exists(OwnCheckpoint)
Interrupted ==
    /\ pc = "exited"
    /\ disk[OwnCheckpoint] =
          (IF prog = "hybrid" THEN CheckpointDoc(self) ELSE L_CheckpointDoc(self))
    /\ disk[OwnInventory] =
          (IF prog = "hybrid" THEN InventoryDoc(self) ELSE L_InventoryDoc(self))
FailedRun   == pc = "failed" \/ (pc = "done" /\ self.has_more)

\* C30: every run that was started comes to an end; at its end it is complete
\* (checkpoint removed), interrupted (saved, checkpoint kept) or failed, and only one
\* of these; a remote call is attempted only while no SIGINT has been handled and
\* the last answer of this run, if there is one, said has_more
C30_RunsTerminate ==
    /\ (prog # "none") ~> (pc \in Terminal)
    /\ []((prog # "none" /\ pc \in Terminal) =>
            /\ Complete \/ Interrupted \/ FailedRun
            /\ ~(Complete /\ FailedRun))
    /\ []((prog # "none" /\ pc \in CallSites) =>
            /\ sigAt = ""
            /\ result = NoResult \/ result.has_more)

\* ------------------------------------------------------------------- C31
\* C31: the verifier's closing summary says that the inventory appears complete (all
\* root folders present, size matches the account) only if the root-set check found
\* no missing path and the usage check was performed and accepted the difference
C31_VerdictAgreesWithChecks ==
    (prog = "verify" /\ pc = "done"
       /\ self.verdict = "INVENTORY APPEARS COMPLETE") =>
        /\ self.missing_in_inventory = {}
        /\ self.usage = "match"
====
